---------------------------- MODULE Spec2Model ----------------------------
(***************************************************************************)
(* A model of the sunpower_ws integration (custom_components/sunpower_ws): *)
(* the payload normalizer, the DeviceList parser, the integrating energy   *)
(* sensor and the hub's WebSocket runner.                                  *)
(*                                                                         *)
(* Numbers.  Python ints and floats are modelled as exact integers; a bool *)
(* behaves as the int it is.  Values outside the range of a float (where   *)
(* float() raises OverflowError) and NaN are outside the model.            *)
(*                                                                         *)
(* JSON values are records [k, n]: k is the Python type of the value and n *)
(* its numeric value where it has one;  a dict is [k |-> "dict", d |-> f]  *)
(* with f the mapping from its keys to their values.                       *)
(***************************************************************************)
EXTENDS Integers, Sequences, FiniteSets, TLC

VARIABLES
    \* ---- _normalize_payload applied to one decoded message
    data,             \* the decoded JSON message handed to _normalize_payload
    consumption_measure, \* hub.consumption_measure
    normalized,       \* what _normalize_payload returned
    norm_pc,          \* "off", "input" while the message is being drawn, "done"
    \* ---- _parse_devicelist applied to one decoded DeviceList body
    dl_data,          \* the decoded JSON body handed to _parse_devicelist
    parsed,           \* what _parse_devicelist returned
    dl_pc,            \* "off", "input" while the body is being drawn, "done"
    \* ---- one IntegratingEnergySensor and the hub settings it reads
    integrator,       \* the sensor's _attr_native_value, _last_ts, _last_kw, _last_publish_ts
    enable_ws_throttle,  \* hub.enable_ws_throttle
    ws_update_interval,  \* hub.ws_update_interval
    ha_state,         \* the value last written by async_write_ha_state
    int_prev,         \* (history) the sensor before the last sample
    int_sample,       \* (history) the last sample: data.get(source_key), time.time()
    n_samples,        \* (history) samples handed to the listener
    int_pc,           \* "off", "new" (constructed), "listening"
    twin,             \* a second sensor given the same samples: one like the first on a
                      \* hub of its own, or the export sensor beside the import sensor
    live,             \* the power sensor on the same hub: _attr_native_value, _last_publish_ts
    wrote,            \* (history) which sensors wrote their state at the last sample
    \* ---- the hub (SunPowerWSHub)
    enable_devicelist_scan, \* hub.enable_devicelist_scan
    session,          \* self._session: "none" or "open"
    ws,               \* self._ws: "none", or "open": a socket that is not closed
    listeners,        \* self._listeners
    task,             \* self._task: "none", or the runner's task: "running" or "done"
    poll_task,        \* self._poll_task, likewise
    stopped,          \* self._stopped.is_set()
    connected,        \* self._connected
    hooks,            \* listeners registered for EVENT_HOMEASSISTANT_STOP
    s_pc,             \* where async_stop is: "idle" or the await it is at
    \* ---- the runner (_runner)
    r_pc,             \* where the runner is: the await it is at, or "deliver"
    backoff,          \* its local `backoff`
    cancel_req,       \* task.cancel() was called and has not taken effect yet
    unwinding,        \* a CancelledError is passing through the inner `finally`
    sample,           \* its local `normalized`
    cb_i,             \* the position of `for cb in self._listeners`
    timeout_duration, \* the runner's local: the timeout of its connection attempt
    fails,            \* (history) failed attempts since the last connection or the start
    prev_backoff,     \* (history) `backoff` when the last connection came up; 0: none yet
    n_msgs,           \* (history) frames received
    calls,            \* (history) the listener calls made, in order: the frame's
                      \* number, the listener, the listeners there were, the argument
    last_msg,         \* (history) the last frame received and what became of it
    \* ---- the DeviceList poller (_devicelist_poller)
    poll_interval,    \* hub.poll_interval
    devicelist_listeners, \* self._devicelist_listeners
    p_pc,             \* where the poller is: the await it is at
    p_backoff,        \* its local `backoff`
    p_cancel_req,     \* the poll task's cancel() was called and has not taken effect yet
    last_poll,        \* (history) the last poll cycle and what became of it
    \* ---- (history) calls of async_start and async_stop
    n_starts,         \* calls of async_start
    late_start,       \* (history) "yes": async_start was called after an async_stop
                      \* had returned; "no": not so far; "untracked": not followed
    tasks_created,    \* tasks async_start has created: stream loops, poll loops
    stops_returned,   \* async_stop calls begun after async_start ran that returned
    early_stop,       \* an async_stop call begun before async_start ran has returned
    stop_from_start,  \* the async_stop call in progress began after async_start ran
    stop_raised,      \* an exception left async_stop
    \* ---- the sensor layer's device-list listeners (sensor.py)
    seen_ids,         \* InverterEntityManager._seen_ids
    added,            \* the per-inverter entities handed to async_add_entities
    sens_values,      \* _attr_native_value of the entity each listener serves
    dl_i,             \* the position of `for cb in self._devicelist_listeners`; 0: no broadcast
    dl_len0,          \* (history) the listeners there were when the broadcast began
    dl_calls,         \* (history) the listener calls of the broadcast, in order
    \* ---- the config entries, their flows and their hubs
    entries,          \* the config entries: data, options (host and port), loaded
    flow_result,      \* (history) the last step of a config or options flow and its result
    hubs,             \* the hubs async_setup_entry has constructed, in order
    hub_slot          \* hass.data[DOMAIN]["hub"]: a position in hubs, or 0 (no such key)

normVars == <<data, consumption_measure, normalized, norm_pc>>
dlVars == <<dl_data, parsed, dl_pc>>

intVars == <<integrator, enable_ws_throttle, ws_update_interval, ha_state,
             int_prev, int_sample, n_samples, int_pc, twin, live, wrote>>

hubVars == <<enable_devicelist_scan, session, ws, listeners, task, poll_task,
             stopped, connected, hooks, s_pc>>

runVars == <<r_pc, backoff, cancel_req, unwinding, sample, cb_i, timeout_duration>>

histVars == <<fails, prev_backoff, n_msgs, calls, last_msg>>

pollVars == <<poll_interval, devicelist_listeners, p_pc, p_backoff, p_cancel_req,
              last_poll>>

lifeVars == <<n_starts, late_start, tasks_created, stops_returned, early_stop, stop_from_start,
              stop_raised>>

sensVars == <<seen_ids, added, sens_values, dl_i, dl_len0, dl_calls>>

cfgVars == <<entries, flow_result, hubs, hub_slot>>

vars == <<normVars, dlVars, intVars, hubVars, runVars, histVars, pollVars, lifeVars,
          sensVars, cfgVars>>

-----------------------------------------------------------------------------
(* JSON / Python values *)

NumV(n) == [k |-> "num", n |-> n]        \* an int or a float
StrV(n) == [k |-> "numstr", n |-> n]     \* a str that float() parses to n
BadStr == [k |-> "badstr", n |-> 0]      \* a str that float() rejects
NoneV == [k |-> "null", n |-> 0]         \* JSON null, Python None
ListV == [k |-> "list", n |-> 0]         \* a JSON array (contents not needed)
ListOf(l) == [k |-> "list", l |-> l]     \* a JSON array with its elements
TextV(s) == [k |-> "str", s |-> s]       \* a str, by its text
\* A JSON object whose keys are scanned in document order: a sequence of
\* <<key, value>> pairs (Python dicts keep insertion order).
ItemsV(items) == [k |-> "dict", items |-> items]
DictV(f) == [k |-> "dict", d |-> f]      \* a JSON object

EmptyDict == <<>>

IsDict(v) == v.k = "dict"

\* isinstance(v, (int, float))
IsNumeric(v) == v.k = "num"

\* float(v) returns (does not raise)
FloatOK(v) == v.k \in {"num", "numstr"}

\* float(v), where FloatOK(v)
Float(v) == NumV(v.n)

-----------------------------------------------------------------------------
(* _normalize_payload *)

FIELD_MAP ==
    [ pv_kw            |-> <<"pv_p", "solar_p", "pv_kw">>,
      load_kw          |-> <<"site_load_p", "load_p", "load_kw">>,
      net_kw           |-> <<"net_p", "grid_p", "net_kw">>,
      solar_w          |-> <<"solar_w", "pv_w">>,
      load_w           |-> <<"load_w", "house_w">>,
      net_w            |-> <<"net_w">>,
      grid_w           |-> <<"grid_w">>,
      battery_soc      |-> <<"soc", "battery_soc", "ess_soc">>,
      pv_en_kwh        |-> <<"pv_en">>,
      site_load_en_kwh |-> <<"site_load_en">>,
      net_en_kwh       |-> <<"net_en">> ]

NormKeys == DOMAIN FIELD_MAP

\* The mapping the fields are read from: data["params"] or else data["power"]
\* when that is a dict, else data itself.
Unwrap(dat) ==
    IF "params" \in DOMAIN dat.d /\ IsDict(dat.d["params"]) THEN dat.d["params"].d
    ELSE IF "power" \in DOMAIN dat.d /\ IsDict(dat.d["power"]) THEN dat.d["power"].d
    ELSE dat.d

\* The first candidate of a normalized key that the payload holds.
FirstCandidate(payload, nk) ==
    LET cands == FIELD_MAP[nk]
        i == CHOOSE j \in 1..Len(cands) :
                 /\ cands[j] \in DOMAIN payload
                 /\ \A h \in 1..(j - 1) : cands[h] \notin DOMAIN payload
    IN  cands[i]

\* "Pull known keys": result[norm_key] = payload[k] for the first k present.
PullKnownKeys(payload) ==
    LET present == {nk \in NormKeys :
                       \E j \in 1..Len(FIELD_MAP[nk]) : FIELD_MAP[nk][j] \in DOMAIN payload}
    IN  [nk \in present |-> payload[FirstCandidate(payload, nk)]]

\* kw_to_w: float(v) * 1000.0, None when float(v) raises.
kw_to_w(v) == IF FloatOK(v) THEN NumV(v.n * 1000) ELSE NoneV

\* A plausible slip: `and w not in result` is missing, so the W value is
\* derived whenever the kW value is there.
DeriveWOverrides(result, kw, w) ==
    IF kw \in DOMAIN result
    THEN LET vw == kw_to_w(result[kw])
         IN  (w :> (IF vw # NoneV THEN vw
                    ELSE IF w \in DOMAIN result THEN result[w] ELSE NoneV)) @@ result
    ELSE result

\* if kw in result and w not in result:
\*     vw = kw_to_w(result[kw]); result[w] = vw if vw is not None else result.get(w)
DeriveW(result, kw, w) ==
    IF kw \in DOMAIN result /\ w \notin DOMAIN result
    THEN LET vw == kw_to_w(result[kw])
         IN  (w :> (IF vw # NoneV THEN vw ELSE NoneV)) @@ result
    ELSE result

DeriveLegacyW(result) ==
    DeriveW(DeriveW(DeriveW(result, "pv_kw", "solar_w"), "load_kw", "load_w"),
            "net_kw", "net_w")

\* A plausible slip: house_usage keeps a net the device reported.
NetReconcileKeepReported(result, cmode) ==
    IF cmode = "house_usage"
    THEN IF "pv_kw" \in DOMAIN result /\ "load_kw" \in DOMAIN result
            /\ "net_kw" \notin DOMAIN result
            /\ FloatOK(result["load_kw"]) /\ FloatOK(result["pv_kw"])
         THEN ("net_kw" :> NumV(result["load_kw"].n - result["pv_kw"].n)) @@ result
         ELSE result
    ELSE IF cmode = "grid_import"
    THEN IF "net_kw" \notin DOMAIN result /\ "load_kw" \in DOMAIN result
            /\ FloatOK(result["load_kw"])
         THEN ("net_kw" :> Float(result["load_kw"])) @@ result
         ELSE result
    ELSE result

\* A plausible slip: grid_import takes the load for the net even when the
\* device reported a net.
NetReconcileGridOverrides(result, cmode) ==
    IF cmode = "house_usage"
    THEN IF "pv_kw" \in DOMAIN result /\ "load_kw" \in DOMAIN result
            /\ FloatOK(result["load_kw"]) /\ FloatOK(result["pv_kw"])
         THEN ("net_kw" :> NumV(result["load_kw"].n - result["pv_kw"].n)) @@ result
         ELSE result
    ELSE IF cmode = "grid_import"
    THEN IF "load_kw" \in DOMAIN result /\ FloatOK(result["load_kw"])
         THEN ("net_kw" :> Float(result["load_kw"])) @@ result
         ELSE result
    ELSE result

\* A plausible slip: house_usage takes a missing production for 0 and
\* derives the net from the load alone.
NetReconcileMissingPvZero(result, cmode) ==
    IF cmode = "house_usage"
    THEN IF "load_kw" \in DOMAIN result /\ FloatOK(result["load_kw"])
            /\ ("pv_kw" \in DOMAIN result => FloatOK(result["pv_kw"]))
         THEN ("net_kw" :> NumV(result["load_kw"].n
                                - (IF "pv_kw" \in DOMAIN result
                                   THEN result["pv_kw"].n ELSE 0))) @@ result
         ELSE result
    ELSE IF cmode = "grid_import"
    THEN IF "net_kw" \notin DOMAIN result /\ "load_kw" \in DOMAIN result
            /\ FloatOK(result["load_kw"])
         THEN ("net_kw" :> Float(result["load_kw"])) @@ result
         ELSE result
    ELSE result

\* "Compute/override net based on configured consumption measure".  A float()
\* that raises leaves the try block before the assignment: result unchanged.
NetReconcile(result, cmode) ==
    IF cmode = "house_usage"
    THEN IF "pv_kw" \in DOMAIN result /\ "load_kw" \in DOMAIN result
            /\ FloatOK(result["load_kw"]) /\ FloatOK(result["pv_kw"])
         THEN ("net_kw" :> NumV(result["load_kw"].n - result["pv_kw"].n)) @@ result
         ELSE result
    ELSE IF cmode = "grid_import"
    THEN IF "net_kw" \notin DOMAIN result /\ "load_kw" \in DOMAIN result
            /\ FloatOK(result["load_kw"])
         THEN ("net_kw" :> Float(result["load_kw"])) @@ result
         ELSE result
    ELSE result

\* "Normalize numeric types": a value that is no int or float becomes
\* float(v); when float(v) raises the value is left as it is.
NormalizeNumericTypes(result) ==
    [nk \in DOMAIN result |->
        IF IsNumeric(result[nk]) THEN result[nk]
        ELSE IF FloatOK(result[nk]) THEN Float(result[nk])
        ELSE result[nk]]

NormalizePayload(dat, cmode) ==
    IF ~IsDict(dat) THEN EmptyDict
    ELSE NormalizeNumericTypes(
             NetReconcile(DeriveLegacyW(PullKnownKeys(Unwrap(dat))), cmode))

-----------------------------------------------------------------------------
(* Inputs of the normalizer *)

MaxFields == 3

\* Source keys a drawn message may carry ("foo" is a key FIELD_MAP does not know).
RawKeys == {"pv_p", "load_p", "net_p", "solar_w", "pv_w", "net_w", "soc", "foo"}

\* Values a drawn field may carry.
RawValues == {NumV(1), NumV(3), StrV(2), BadStr, NoneV}

Modes == {"house_usage", "grid_import"}

\* The fields of the message, under data["params"], under data["power"], or
\* at the top level.
Fields(dat) == IF IsDict(dat) THEN Unwrap(dat) ELSE EmptyDict

WithField(dat, key, v) ==
    LET f == (key :> v) @@ Fields(dat)
    IN  IF "params" \in DOMAIN dat.d THEN DictV(("params" :> DictV(f)))
        ELSE IF "power" \in DOMAIN dat.d THEN DictV(("power" :> DictV(f)))
        ELSE DictV(f)

NormInit ==
    /\ data \in {DictV(EmptyDict), DictV(("params" :> DictV(EmptyDict))),
                 DictV(("power" :> DictV(EmptyDict))), ListV}
    /\ consumption_measure \in Modes
    /\ normalized = EmptyDict
    /\ norm_pc = "input"

\* The gateway's message gains one more field.
NormAddField ==
    /\ norm_pc = "input"
    /\ IsDict(data)
    /\ Cardinality(DOMAIN Fields(data)) < MaxFields
    /\ \E key \in RawKeys \ DOMAIN Fields(data) : \E v \in RawValues :
           data' = WithField(data, key, v)
    /\ UNCHANGED <<consumption_measure, normalized, norm_pc, dlVars, intVars>>
    /\ UNCHANGED <<hubVars, runVars, histVars, pollVars, lifeVars, sensVars, cfgVars>>

\* normalized = self._normalize_payload(data)
Normalize ==
    /\ norm_pc = "input"
    /\ normalized' = NormalizePayload(data, consumption_measure)
    /\ norm_pc' = "done"
    /\ UNCHANGED <<data, consumption_measure, dlVars, intVars>>
    /\ UNCHANGED <<hubVars, runVars, histVars, pollVars, lifeVars, sensVars, cfgVars>>

NextNorm == NormAddField \/ Normalize

\* The normalizer at rest (in the specifications of the other components).
NormIdle ==
    /\ data = ListV
    /\ consumption_measure = "house_usage"
    /\ normalized = EmptyDict
    /\ norm_pc = "off"

-----------------------------------------------------------------------------
(* Strings: `in` (substring) and .lower() on the texts the model uses *)

Spell(s) ==
  CASE s = "name" -> <<"n", "a", "m", "e">>
    [] s = "DeviceName" -> <<"D", "e", "v", "i", "c", "e", "N", "a", "m", "e">>
    [] s = "model" -> <<"m", "o", "d", "e", "l">>
    [] s = "Model" -> <<"M", "o", "d", "e", "l">>
    [] s = "type" -> <<"t", "y", "p", "e">>
    [] s = "DeviceType" -> <<"D", "e", "v", "i", "c", "e", "T", "y", "p", "e">>
    [] s = "serial" -> <<"s", "e", "r", "i", "a", "l">>
    [] s = "SerialNumber" -> <<"S", "e", "r", "i", "a", "l", "N", "u", "m", "b", "e", "r">>
    [] s = "id" -> <<"i", "d">>
    [] s = "DeviceID" -> <<"D", "e", "v", "i", "c", "e", "I", "D">>
    [] s = "ac_lifetime_wh" -> <<"a", "c", "_", "l", "i", "f", "e", "t", "i", "m", "e", "_", "w", "h">>
    [] s = "lifetime_energy_kwh" -> <<"l", "i", "f", "e", "t", "i", "m", "e", "_", "e", "n", "e", "r", "g", "y", "_", "k", "w", "h">>
    [] s = "lifetime_ac" -> <<"l", "i", "f", "e", "t", "i", "m", "e", "_", "a", "c">>
    [] s = "lifetime_energy" -> <<"l", "i", "f", "e", "t", "i", "m", "e", "_", "e", "n", "e", "r", "g", "y">>
    [] s = "stats" -> <<"s", "t", "a", "t", "s">>
    [] s = "ac_w" -> <<"a", "c", "_", "w">>
    [] s = "temp_c" -> <<"t", "e", "m", "p", "_", "c">>
    [] s = "Inverter1" -> <<"I", "n", "v", "e", "r", "t", "e", "r", "1">>
    [] s = "PVS6" -> <<"P", "V", "S", "6">>
    [] s = "MicroA" -> <<"M", "i", "c", "r", "o", "A">>
    [] s = "inverter" -> <<"i", "n", "v", "e", "r", "t", "e", "r">>
    [] s = "meter" -> <<"m", "e", "t", "e", "r">>
    [] s = "E001" -> <<"E", "0", "0", "1">>
    [] s = "device" -> <<"d", "e", "v", "i", "c", "e">>
    [] s = "" -> <<>>
    [] s = "lifetime" -> <<"l", "i", "f", "e", "t", "i", "m", "e">>
    [] s = "energy" -> <<"e", "n", "e", "r", "g", "y">>
    [] s = "ac" -> <<"a", "c">>
    [] s = "wh" -> <<"w", "h">>
    [] s = "kwh" -> <<"k", "w", "h">>
    [] s = "invert" -> <<"i", "n", "v", "e", "r", "t">>
    [] s = "micro" -> <<"m", "i", "c", "r", "o">>

UpperCase == <<"A", "B", "C", "D", "E", "F", "G", "H", "I", "J", "K", "L", "M",
               "N", "O", "P", "Q", "R", "S", "T", "U", "V", "W", "X", "Y", "Z">>
LowerCase == <<"a", "b", "c", "d", "e", "f", "g", "h", "i", "j", "k", "l", "m",
               "n", "o", "p", "q", "r", "s", "t", "u", "v", "w", "x", "y", "z">>

LowerChar(c) ==
    IF \E i \in 1..Len(UpperCase) : UpperCase[i] = c
    THEN LowerCase[CHOOSE i \in 1..Len(UpperCase) : UpperCase[i] = c]
    ELSE c

\* s.lower(), as a sequence of characters
Lower(s) == [i \in 1..Len(Spell(s)) |-> LowerChar(Spell(s)[i])]

\* needle in hay, for sequences of characters
Contains(hay, needle) ==
    \E i \in 1..(Len(hay) - Len(needle) + 1) :
        SubSeq(hay, i, i + Len(needle) - 1) = needle

\* The texts that occur as keys, names, types and serials of drawn devices,
\* and the texts the code looks for in them.
Texts == {"name", "DeviceName", "model", "Model", "type", "DeviceType", "serial",
          "SerialNumber", "id", "DeviceID", "ac_lifetime_wh", "lifetime_energy_kwh",
          "lifetime_ac", "lifetime_energy", "stats", "ac_w", "temp_c", "Inverter1",
          "PVS6", "MicroA", "inverter", "meter", "E001", "device", ""}
Patterns == {"lifetime", "energy", "ac", "wh", "kwh", "invert", "micro"}

\* sub in s.lower(), tabulated once over Patterns and Texts
InLowerTable ==
    [sub \in Patterns |-> [s \in Texts |-> Contains(Lower(s), Spell(sub))]]

\* sub in s.lower()
InLower(sub, s) == InLowerTable[sub][s]

-----------------------------------------------------------------------------
(* _extract_inverter_metrics *)

HasKey(items, key) == \E i \in 1..Len(items) : items[i][1] = key

\* dev.get(key): None when the key is absent
Get(items, key) ==
    IF HasKey(items, key)
    THEN items[CHOOSE i \in 1..Len(items) : items[i][1] = key][2]
    ELSE NoneV

\* bool(v): None, "", 0 are false
Truthy(v) ==
    CASE v.k = "null" -> FALSE
      [] v.k = "str"  -> v.s # ""
      [] v.k = "num"  -> v.n # 0
      [] OTHER        -> TRUE

\* dev.get(k1) or dev.get(k2) or ... or default
RECURSIVE FirstTruthy(_, _, _)
FirstTruthy(items, keys, default) ==
    IF keys = <<>> THEN default
    ELSE IF Truthy(Get(items, Head(keys))) THEN Get(items, Head(keys))
    ELSE FirstTruthy(items, Tail(keys), default)

\* str(v) of the value found; the devices drawn name themselves by strings
PyStr(v) == v.s

DevName(items) ==
    PyStr(FirstTruthy(items, <<"name", "DeviceName", "model", "Model">>, TextV("device")))
DevType(items) ==
    PyStr(FirstTruthy(items, <<"type", "DeviceType">>, TextV("")))
DevSerial(items) ==
    PyStr(FirstTruthy(items, <<"serial", "SerialNumber", "id", "DeviceID">>,
                      TextV(DevName(items))))

looks_inverter(items) ==
    \/ InLower("invert", DevType(items))
    \/ InLower("invert", DevName(items))
    \/ InLower("micro", DevName(items))

\* ("lifetime" in kl) and ("energy" in kl or "ac" in kl)
IsLifetimeKey(key) ==
    /\ InLower("lifetime", key)
    /\ InLower("energy", key) \/ InLower("ac", key)

\* A plausible slip: the "kwh" test comes first, so a key that says kWh is
\* never divided.
LifetimeFromKwhFirst(key, val) ==
    IF InLower("kwh", key) THEN val
    ELSE IF InLower("wh", key) /\ val > 1000 THEN val \div 1000
    ELSE IF val > 5000 THEN val \div 1000 ELSE val

\* The value a matched key gives lifetime_kwh.  val / 1000.0 is exact here:
\* the values drawn above 1000 are multiples of 1000.
LifetimeFrom(key, val) ==
    IF InLower("wh", key) /\ val > 1000 THEN val \div 1000
    ELSE IF InLower("kwh", key) THEN val
    ELSE IF val > 5000 THEN val \div 1000 ELSE val

\* scan_for_lifetime: every item in document order, nested dicts in place;
\* each matched key whose value float() parses overwrites lifetime_kwh.
RECURSIVE ScanForLifetime(_, _)
ScanForLifetime(items, lifetime_kwh) ==
    IF items = <<>> THEN lifetime_kwh
    ELSE LET key == Head(items)[1]
             v == Head(items)[2]
             after == IF IsDict(v) THEN ScanForLifetime(v.items, lifetime_kwh)
                      ELSE IF IsLifetimeKey(key) /\ FloatOK(v)
                           THEN NumV(LifetimeFrom(key, v.n))
                           ELSE lifetime_kwh
         IN  ScanForLifetime(Tail(items), after)

\* _first_num: the first key whose value is an int or a float
RECURSIVE FirstNum(_, _)
FirstNum(items, keys) ==
    IF keys = <<>> THEN NoneV
    ELSE IF IsNumeric(Get(items, Head(keys))) THEN Float(Get(items, Head(keys)))
    ELSE FirstNum(items, Tail(keys))

\* A plausible slip: keep a device only when it looks like an inverter.
IncludedOnlyInverters(dev) ==
    /\ IsDict(dev)
    /\ looks_inverter(dev.items)

\* Whether _extract_inverter_metrics returns a record (not None) for dev.
Included(dev) ==
    /\ IsDict(dev)
    /\ ~(ScanForLifetime(dev.items, NoneV) = NoneV /\ ~looks_inverter(dev.items))

\* The record _extract_inverter_metrics returns for an included device.
ExtractInverterMetrics(dev) ==
    [ id           |-> DevSerial(dev.items),
      name         |-> DevName(dev.items),
      lifetime_kwh |-> ScanForLifetime(dev.items, NoneV),
      ac_w         |-> FirstNum(dev.items, <<"ac_w", "ac_power", "acwatts", "ac_watts", "acp">>),
      dc_v         |-> FirstNum(dev.items, <<"dc_v", "dc_voltage", "dcv">>),
      dc_a         |-> FirstNum(dev.items, <<"dc_a", "dc_current", "dca">>),
      temp_c       |-> FirstNum(dev.items, <<"temp_c", "temperature_c", "temperature">>) ]

-----------------------------------------------------------------------------
(* _parse_devicelist *)

\* The device array: data["devices"], else data["DeviceList"]["devices"],
\* when that is a list; else empty.
Devices(dat) ==
    IF ~IsDict(dat) THEN <<>>
    ELSE IF "devices" \in DOMAIN dat.d /\ dat.d["devices"].k = "list"
         THEN dat.d["devices"].l
    ELSE IF "DeviceList" \in DOMAIN dat.d /\ IsDict(dat.d["DeviceList"])
         THEN IF /\ "devices" \in DOMAIN dat.d["DeviceList"].d
                 /\ dat.d["DeviceList"].d["devices"].k = "list"
              THEN dat.d["DeviceList"].d["devices"].l
              ELSE <<>>
    ELSE <<>>

\* The loop over the devices: <<inverters, total_kwh, any_kwh>>.
RECURSIVE Aggregate(_, _, _, _)
Aggregate(devices, inverters, total_kwh, any_kwh) ==
    IF devices = <<>> THEN <<inverters, total_kwh, any_kwh>>
    ELSE LET d == Head(devices)
         IN  IF ~Included(d)
             THEN Aggregate(Tail(devices), inverters, total_kwh, any_kwh)
             ELSE LET inv == ExtractInverterMetrics(d)
                  IN  IF inv.lifetime_kwh # NoneV
                      THEN Aggregate(Tail(devices), Append(inverters, inv),
                                     total_kwh + inv.lifetime_kwh.n, TRUE)
                      ELSE Aggregate(Tail(devices), Append(inverters, inv),
                                     total_kwh, any_kwh)

\* A plausible slip: the site total is reported only when it is not zero.
SiteLifetimeIfNonZero(total_kwh, any_kwh) ==
    IF total_kwh # 0 THEN NumV(total_kwh) ELSE NoneV

\* if any_kwh: result["site_lifetime_kwh"] = total_kwh   (else it stays None)
SiteLifetime(total_kwh, any_kwh) ==
    IF any_kwh THEN NumV(total_kwh) ELSE NoneV

ParseDevicelist(dat) ==
    LET agg == Aggregate(Devices(dat), <<>>, 0, FALSE)
    IN  [ site_lifetime_kwh |-> SiteLifetime(agg[2], agg[3]),
          inverters         |-> agg[1] ]

-----------------------------------------------------------------------------
(* Inputs of the DeviceList parser *)

MaxDevices == 2

\* How a drawn device names itself.
SampleIdent ==
    { <<>>,
      << <<"name", TextV("Inverter1")>>, <<"type", TextV("inverter")>>,
         <<"serial", TextV("E001")>> >>,
      << <<"name", TextV("PVS6")>>, <<"type", TextV("meter")>> >>,
      << <<"DeviceName", TextV("MicroA")>> >> }

\* What a drawn device reports.
SampleReport ==
    { <<>>,
      << <<"ac_lifetime_wh", NumV(500000)>> >>,
      << <<"ac_lifetime_wh", NumV(0)>>, <<"ac_w", NumV(250)>> >>,
      << <<"lifetime_energy_kwh", NumV(2000)>> >>,
      << <<"lifetime_energy_kwh", NumV(500)>> >>,
      << <<"stats", ItemsV(<< <<"lifetime_energy", StrV(500)>> >>)>>,
         <<"temp_c", NumV(40)>> >>,
      << <<"lifetime_ac", NumV(6000)>>, <<"ac_lifetime_wh", BadStr>> >>,
      << <<"ac_w", NumV(250)>> >> }

\* The devices a drawn body may list; a JSON string stands for an entry that
\* is no object.
SampleDevices ==
    {ItemsV(ident \o report) : ident \in SampleIdent, report \in SampleReport}
        \cup {TextV("device")}

\* The bodies: {"devices": [...]}, {"DeviceList": {"devices": [...]}}, and a
\* body with neither.
DLWrap(kind, devices) ==
    CASE kind = "devices"    -> DictV(("devices" :> ListOf(devices)))
      [] kind = "DeviceList" -> DictV(("DeviceList" :> DictV(("devices" :> ListOf(devices)))))
      [] OTHER               -> DictV(("result" :> ListOf(devices)))

DLKind(dat) ==
    IF "devices" \in DOMAIN dat.d THEN "devices"
    ELSE IF "DeviceList" \in DOMAIN dat.d THEN "DeviceList" ELSE "result"

\* The list a drawn body carries, wherever it carries it.
DLList(dat) ==
    CASE DLKind(dat) = "devices"    -> dat.d["devices"].l
      [] DLKind(dat) = "DeviceList" -> dat.d["DeviceList"].d["devices"].l
      [] OTHER                      -> dat.d["result"].l

EmptyParsed == [site_lifetime_kwh |-> NoneV, inverters |-> <<>>]

DLInit ==
    /\ dl_data \in {DLWrap(kind, <<>>) : kind \in {"devices", "DeviceList", "result"}}
    /\ parsed = EmptyParsed
    /\ dl_pc = "input"

\* The gateway's body lists one more device.
DLAddDevice ==
    /\ dl_pc = "input"
    /\ Len(DLList(dl_data)) < MaxDevices
    /\ \E dev \in SampleDevices :
           dl_data' = DLWrap(DLKind(dl_data), Append(DLList(dl_data), dev))
    /\ UNCHANGED <<parsed, dl_pc, normVars, intVars>>
    /\ UNCHANGED <<hubVars, runVars, histVars, pollVars, lifeVars, sensVars, cfgVars>>

\* parsed = self._parse_devicelist(data)
ParseDL ==
    /\ dl_pc = "input"
    /\ parsed' = ParseDevicelist(dl_data)
    /\ dl_pc' = "done"
    /\ UNCHANGED <<dl_data, normVars, intVars>>
    /\ UNCHANGED <<hubVars, runVars, histVars, pollVars, lifeVars, sensVars, cfgVars>>

NextDL == DLAddDevice \/ ParseDL

\* The parser at rest (in the specifications of the other components).
DLIdle ==
    /\ dl_data = DLWrap("devices", <<>>)
    /\ parsed = EmptyParsed
    /\ dl_pc = "off"

-----------------------------------------------------------------------------
(* IntegratingEnergySensor (sensor.py) *)

\* Energy is counted in units of 1/7200 kWh, in which the trapezoid
\* (last_kw + p) / 2.0 * (dt / 3600.0) of integer kW and seconds is the
\* integer (last_kw + p) * dt.
UnitsPerKwh == 7200

\* kwh = (self._last_kw + float(p)) / 2.0 * (dt / 3600.0), in 1/7200 kWh.
\* A plausible slip: the rectangle under the current power alone.
TrapezoidCurrentOnly(last_kw, p, dt) == (p + p) * dt

Trapezoid(last_kw, p, dt) == (last_kw + p) * dt

\* A plausible slip: the export sensor clamps the power without negating it.
ClampUnsigned(mode, p) ==
    CASE mode = "import" -> IF p > 0 THEN p ELSE 0
      [] mode = "export" -> IF p > 0 THEN p ELSE 0
      [] OTHER           -> p

\* val = max(val, 0.0) of a GridSplitEnergySensor in mode "import",
\* max(-val, 0.0) in mode "export"; an IntegratingEnergySensor that is no
\* GridSplitEnergySensor (mode "none") takes float(p) as it is.
Clamp(mode, p) ==
    CASE mode = "import" -> IF p > 0 THEN p ELSE 0
      [] mode = "export" -> IF -p > 0 THEN -p ELSE 0
      [] OTHER           -> p

\* The sensor as constructed (__init__).
NewSensor ==
    [ mode            |-> "none",
      native_value    |-> NoneV,
      last_ts         |-> NoneV,
      last_kw         |-> NoneV,
      last_publish_ts |-> 0 ]

\* A plausible slip: the hub's interval is not consulted (any later time
\* will do).
MayPublishAnyLater(s, now, throttle, interval) ==
    ~throttle \/ (now - s.last_publish_ts) > 0

\* (not enable_ws_throttle) or (now - last_publish_ts) >= ws_update_interval
MayPublish(s, now, throttle, interval) ==
    ~throttle \/ (now - s.last_publish_ts) >= interval

\* self._attr_native_value or 0.0
ValueOrZero(v) == IF Truthy(v) THEN v.n ELSE 0

\* A plausible slip: a sample is added to the total only when the state is
\* published, so the total depends on the hub's throttle settings.
IntegratingListenerPublishedOnly(s, p, now, throttle, interval) ==
    IF ~IsNumeric(p) THEN <<s, FALSE>>
    ELSE LET val == Clamp(s.mode, p.n)
             integrates == /\ s.last_ts # NoneV /\ s.last_kw # NoneV
                           /\ now - s.last_ts.n > 0
                           /\ Trapezoid(s.last_kw.n, val, now - s.last_ts.n) > 0
             kwh == Trapezoid(s.last_kw.n, val, now - s.last_ts.n)
             writes == integrates /\ MayPublish(s, now, throttle, interval)
         IN  << [ mode            |-> s.mode,
                  native_value    |-> IF writes
                                      THEN NumV(ValueOrZero(s.native_value) + kwh)
                                      ELSE s.native_value,
                  last_ts         |-> NumV(now),
                  last_kw         |-> NumV(val),
                  last_publish_ts |-> IF writes THEN now ELSE s.last_publish_ts ],
                writes >>

\* A plausible slip: the last sample is advanced only when a delta was
\* added (or there was no last sample).
IntegratingListenerAdvanceOnDelta(s, p, now, throttle, interval) ==
    IF ~IsNumeric(p) THEN <<s, FALSE>>
    ELSE LET val == Clamp(s.mode, p.n)
             integrates == /\ s.last_ts # NoneV /\ s.last_kw # NoneV
                           /\ now - s.last_ts.n > 0
                           /\ Trapezoid(s.last_kw.n, val, now - s.last_ts.n) > 0
             kwh == Trapezoid(s.last_kw.n, val, now - s.last_ts.n)
             writes == integrates /\ MayPublish(s, now, throttle, interval)
             advances == integrates \/ s.last_ts = NoneV
         IN  << [ mode            |-> s.mode,
                  native_value    |-> IF integrates
                                      THEN NumV(ValueOrZero(s.native_value) + kwh)
                                      ELSE s.native_value,
                  last_ts         |-> IF advances THEN NumV(now) ELSE s.last_ts,
                  last_kw         |-> IF advances THEN NumV(val) ELSE s.last_kw,
                  last_publish_ts |-> IF writes THEN now ELSE s.last_publish_ts ],
                writes >>

\* A plausible slip: `if kwh > 0:` is missing.
IntegratingListenerAnyDelta(s, p, now, throttle, interval) ==
    IF ~IsNumeric(p) THEN <<s, FALSE>>
    ELSE LET val == Clamp(s.mode, p.n)
             integrates == /\ s.last_ts # NoneV /\ s.last_kw # NoneV
                           /\ now - s.last_ts.n > 0
             kwh == Trapezoid(s.last_kw.n, val, now - s.last_ts.n)
             writes == integrates /\ MayPublish(s, now, throttle, interval)
         IN  << [ mode            |-> s.mode,
                  native_value    |-> IF integrates
                                      THEN NumV(ValueOrZero(s.native_value) + kwh)
                                      ELSE s.native_value,
                  last_ts         |-> NumV(now),
                  last_kw         |-> NumV(val),
                  last_publish_ts |-> IF writes THEN now ELSE s.last_publish_ts ],
                writes >>

\* A plausible slip: `if dt > 0:` is missing.
IntegratingListenerAnyDt(s, p, now, throttle, interval) ==
    IF ~IsNumeric(p) THEN <<s, FALSE>>
    ELSE LET val == Clamp(s.mode, p.n)
             integrates == /\ s.last_ts # NoneV /\ s.last_kw # NoneV
                           /\ Trapezoid(s.last_kw.n, val, now - s.last_ts.n) > 0
             kwh == Trapezoid(s.last_kw.n, val, now - s.last_ts.n)
             writes == integrates /\ MayPublish(s, now, throttle, interval)
         IN  << [ mode            |-> s.mode,
                  native_value    |-> IF integrates
                                      THEN NumV(ValueOrZero(s.native_value) + kwh)
                                      ELSE s.native_value,
                  last_ts         |-> NumV(now),
                  last_kw         |-> NumV(val),
                  last_publish_ts |-> IF writes THEN now ELSE s.last_publish_ts ],
                writes >>

\* _listener(data) of IntegratingEnergySensor and of GridSplitEnergySensor,
\* with p = data.get(source_key) and now = time.time(): <<the sensor
\* afterwards, whether the state was written>>.
IntegratingListener(s, p, now, throttle, interval) ==
    IF ~IsNumeric(p) THEN <<s, FALSE>>
    ELSE LET val == Clamp(s.mode, p.n)
             integrates == /\ s.last_ts # NoneV /\ s.last_kw # NoneV
                           /\ now - s.last_ts.n > 0
                           /\ Trapezoid(s.last_kw.n, val, now - s.last_ts.n) > 0
             kwh == Trapezoid(s.last_kw.n, val, now - s.last_ts.n)
             writes == integrates /\ MayPublish(s, now, throttle, interval)
         IN  << [ mode            |-> s.mode,
                  native_value    |-> IF integrates
                                      THEN NumV(ValueOrZero(s.native_value) + kwh)
                                      ELSE s.native_value,
                  last_ts         |-> NumV(now),
                  last_kw         |-> NumV(val),
                  last_publish_ts |-> IF writes THEN now ELSE s.last_publish_ts ],
                writes >>

\* The power sensor as constructed: a GenericLiveSensor (mode "none",
\* _attr_native_value = None) or a GridSplitPowerSensor (0.0).
NewLive(mode) ==
    [ mode            |-> mode,
      native_value    |-> IF mode = "none" THEN NoneV ELSE NumV(0),
      last_publish_ts |-> 0 ]

\* _listener(data) of GenericLiveSensor and of GridSplitPowerSensor, with
\* p = data.get(key) and now = time.time(): <<the sensor afterwards,
\* whether the state was written>>.
LiveListener(s, p, now, throttle, interval) ==
    IF ~IsNumeric(p) THEN <<s, FALSE>>
    ELSE LET writes == MayPublish(s, now, throttle, interval)
         IN  << [ mode            |-> s.mode,
                  native_value    |-> NumV(Clamp(s.mode, p.n)),
                  last_publish_ts |-> IF writes THEN now ELSE s.last_publish_ts ],
                writes >>

\* async_added_to_hass: the value restored from the last state, or 0.0.
RestoredValue(last) ==
    IF last # NoneV /\ FloatOK(last) THEN Float(last) ELSE NumV(0)

-----------------------------------------------------------------------------
(* Inputs of the energy sensor *)

MaxSamples == 3

\* What time.time() may return at a sample (it is not monotonic).
Times == {3600, 3602, 3604, 7200}

\* What data.get(source_key) may be: a power in kW, None (the key is
\* absent), or a value the normalizer left unparsed.
Powers == {NumV(-2), NumV(2), NumV(4), NoneV, BadStr}

\* The last state the recorder may hold: none, an unparseable one
\* ("unknown"), or 1.0 kWh.
LastStates == {NoneV, BadStr, StrV(UnitsPerKwh)}

IntInit ==
    /\ integrator \in {[NewSensor EXCEPT !.mode = m] : m \in {"none", "import", "export"}}
    /\ enable_ws_throttle \in BOOLEAN
    /\ ws_update_interval \in {1, 5}
    /\ ha_state = NoneV
    /\ int_prev = NewSensor
    /\ int_sample = [p |-> NoneV, now |-> 0]
    /\ n_samples = 0
    /\ int_pc = "new"
    /\ twin \in [s : {integrator} \cup
                      (IF integrator.mode = "import"
                       THEN {[NewSensor EXCEPT !.mode = "export"]} ELSE {}),
                  throttle : BOOLEAN, interval : {1, 5}]
    /\ live = NewLive(integrator.mode)
    /\ wrote = [live |-> FALSE, energy |-> FALSE]

\* async_added_to_hass: restore the value and register the listener.
IntAddedToHass ==
    /\ int_pc = "new"
    /\ \E last \in LastStates :
           /\ integrator' = [integrator EXCEPT !.native_value = RestoredValue(last)]
           /\ twin' = [twin EXCEPT !.s.native_value = RestoredValue(last)]
    /\ int_pc' = "listening"
    /\ UNCHANGED <<enable_ws_throttle, ws_update_interval, ha_state, int_prev,
                   int_sample, n_samples, live, wrote, normVars, dlVars>>
    /\ UNCHANGED <<hubVars, runVars, histVars, pollVars, lifeVars, sensVars, cfgVars>>

\* The hub calls the sensor's listener with one normalized sample.
IntSample ==
    /\ int_pc = "listening"
    /\ n_samples < MaxSamples
    /\ \E p \in Powers : \E now \in Times :
           LET r == IntegratingListener(integrator, p, now, enable_ws_throttle,
                                        ws_update_interval)
               l == LiveListener(live, p, now, enable_ws_throttle,
                                 ws_update_interval)
           IN  /\ integrator' = r[1]
               /\ live' = l[1]
               /\ wrote' = [live |-> l[2], energy |-> r[2]]
               /\ ha_state' = IF r[2] THEN r[1].native_value ELSE ha_state
               /\ int_sample' = [p |-> p, now |-> now]
               /\ twin' = [twin EXCEPT !.s = IntegratingListener(
                                               twin.s, p, now, twin.throttle,
                                               twin.interval)[1]]
    /\ int_prev' = integrator
    /\ n_samples' = n_samples + 1
    /\ UNCHANGED <<enable_ws_throttle, ws_update_interval, int_pc, normVars, dlVars>>
    /\ UNCHANGED <<hubVars, runVars, histVars, pollVars, lifeVars, sensVars, cfgVars>>

NextInt == IntAddedToHass \/ IntSample

\* The sensor at rest (in the specifications of the other components).
IntIdle ==
    /\ integrator = NewSensor
    /\ enable_ws_throttle = TRUE
    /\ ws_update_interval = 5
    /\ ha_state = NoneV
    /\ int_prev = NewSensor
    /\ int_sample = [p |-> NoneV, now |-> 0]
    /\ n_samples = 0
    /\ int_pc = "off"
    /\ twin = [s |-> NewSensor, throttle |-> TRUE, interval |-> 5]
    /\ live = NewLive("none")
    /\ wrote = [live |-> FALSE, energy |-> FALSE]


-----------------------------------------------------------------------------
(* SunPowerWSHub: async_start, async_stop, add_listener and _runner *)

\* The frames the WebSocket may yield.  A TEXT frame's data is a text that
\* json.loads decodes to a value, or one it rejects (JSONDecodeError).
JsonText(v) == [json |-> TRUE, value |-> v]
NotJson == [json |-> FALSE, value |-> NoneV]
TextFrame(text) == [type |-> "TEXT", data |-> text]
OtherFrame(type) == [type |-> type, data |-> NotJson]

NoSample == EmptyDict

\* The event loop runs the runner's synchronous section (the loop over the
\* listeners): no other coroutine runs until it reaches an await.
RunnerBusy == r_pc = "deliver"

\* Whether the runner may take the next frame from the socket: only while it
\* awaits one (the listeners are called inside the loop body).
\* A plausible slip: frames are read while listeners are still being called.
MayReceiveAnyTime(pc) == pc \in {"reading", "deliver"}

MayReceive(pc) == pc = "reading"

\* backoff = min(backoff * 2, 30)
\* A plausible slip: no cap.
NextBackoffUncapped(b) == b * 2

NextBackoff(b) == IF b * 2 < 30 THEN b * 2 ELSE 30

\* backoff = 1  # Reset backoff on successful connection
\* A plausible slip: the reset is missing.
BackoffOnConnectKept(b) == b

BackoffOnConnect(b) == 1

\* timeout_duration = 5 if not self._connected else 10
ConnectTimeout(conn) == IF ~conn THEN 5 ELSE 10

\* The top of `while not self._stopped.is_set()` up to the first await:
\* the runner's next position.  "exited": the loop ended; "sleeping": the
\* assert on the session failed (caught by the outer `except Exception`);
\* "connecting": awaiting ws_connect.
LoopTop(is_stopped, sess) ==
    IF is_stopped THEN "exited"
    ELSE IF sess = "none" THEN "sleeping"
    ELSE "connecting"

\* A plausible slip: `if normalized:` is missing, so whatever decodes is broadcast.
FrameActionBroadcastDecoded(frame, is_stopped, cmode) ==
    IF is_stopped THEN "break"
    ELSE IF frame.type = "TEXT"
         THEN IF ~frame.data.json THEN "continue" ELSE "broadcast"
    ELSE IF frame.type \in {"ERROR", "CLOSED", "CLOSING"} THEN "break"
    ELSE "continue"

\* A plausible slip: an ERROR frame is logged and reading goes on.
FrameActionErrorContinues(frame, is_stopped, cmode) ==
    IF is_stopped THEN "break"
    ELSE IF frame.type = "TEXT"
         THEN IF ~frame.data.json THEN "continue"
              ELSE IF NormalizePayload(frame.data.value, cmode) # EmptyDict
                   THEN "broadcast" ELSE "continue"
    ELSE IF frame.type \in {"CLOSED", "CLOSING"} THEN "break"
    ELSE "continue"

\* A plausible slip: `if self._stopped.is_set(): break` is missing.
FrameActionIgnoresStop(frame, is_stopped, cmode) ==
    IF frame.type = "TEXT"
    THEN IF ~frame.data.json THEN "continue"
         ELSE IF NormalizePayload(frame.data.value, cmode) # EmptyDict
              THEN "broadcast" ELSE "continue"
    ELSE IF frame.type \in {"ERROR", "CLOSED", "CLOSING"} THEN "break"
    ELSE "continue"

\* What the message loop does with one frame, up to the listeners:
\* "break" (leave the loop), "continue" (await the next frame), or
\* "broadcast" (call the listeners with the normalized sample).
FrameAction(frame, is_stopped, cmode) ==
    IF is_stopped THEN "break"
    ELSE IF frame.type = "TEXT"
         THEN IF ~frame.data.json THEN "continue"
              ELSE IF NormalizePayload(frame.data.value, cmode) # EmptyDict
                   THEN "broadcast" ELSE "continue"
    ELSE IF frame.type \in {"ERROR", "CLOSED", "CLOSING"} THEN "break"
    ELSE "continue"

\* A plausible slip: the first listener that raises ends the broadcast.
AfterCallbackAbortOnRaise(i, n, raised) ==
    IF raised \/ i >= n THEN "reading" ELSE "deliver"

\* `for cb in self._listeners: try: cb(normalized) except Exception: log`:
\* where the runner is after calling listener i of n.
AfterCallback(i, n, raised) ==
    IF i >= n THEN "reading" ELSE "deliver"

-----------------------------------------------------------------------------
(* Bounds and inputs of the hub *)

MaxFails == 6        \* failed connection attempts in a row
MaxMsgs == 2         \* frames received
MaxListeners == 2    \* add_listener calls
MaxStarts == 2       \* async_start calls counted
MaxStops == 2        \* async_stop calls counted
MaxDLListeners == 2  \* add_devicelist_listener calls
MaxPollFails == 2    \* failed poll cycles in a row

\* With the DeviceList poller enabled the stream loop is followed over
\* shorter runs, and the calls of async_start and async_stop are counted.
FailLimit == IF enable_devicelist_scan THEN 1 ELSE MaxFails
StartLimit == IF enable_devicelist_scan THEN MaxStarts ELSE 1
StopLimit == IF enable_devicelist_scan THEN MaxStops ELSE 0
EarlyLimit == IF enable_devicelist_scan THEN 1 ELSE 0

Min(a, b) == IF a < b THEN a ELSE b

Frames ==
    { TextFrame(NotJson),
      TextFrame(JsonText(ListV)),
      TextFrame(JsonText(DictV(("foo" :> NumV(1))))),
      TextFrame(JsonText(DictV(("params" :> DictV(("pv_p" :> NumV(3)) @@ ("load_p" :> NumV(1))))))),
      OtherFrame("BINARY"),
      OtherFrame("ERROR") }

NoFrame == OtherFrame("none")

\* The record kept of the last frame received: its number in arrival order;
\* what the frame before it on the same connection was ("none": it is the
\* connection's first, "dropped": a text frame that was dropped, "other");
\* whether the connection has come up since (fresh); whether the stop flag was
\* set when it arrived; the sample made of it and the number of listeners it
\* was for; the listeners that raised; and whether the loop then went back to
\* awaiting the next frame with the connection up.
NoLast == [no |-> 0, frame |-> NoFrame, prev |-> "none", fresh |-> TRUE,
           stopping |-> FALSE, sample |-> NoSample, n |-> 0, raised |-> {},
           resumed |-> FALSE]

\* A text frame the loop drops: json.loads rejects it, or it decodes to
\* something that normalizes to the empty mapping (a non-record, or a record
\* with no known field).
DroppedText(frame, cmode) ==
    /\ frame.type = "TEXT"
    /\ ~frame.data.json \/ NormalizePayload(frame.data.value, cmode) = EmptyDict

\* self.poll_interval = max(60, int(poll_interval or DEFAULT_POLL_INTERVAL))
DEFAULT_POLL_INTERVAL == 300

PollInterval(cfg) ==
    LET given == IF cfg = 0 THEN DEFAULT_POLL_INTERVAL ELSE cfg
    IN  IF given > 60 THEN given ELSE 60

\* The record kept of the last poll cycle: how it ended ("none": no cycle
\* yet, "ok", "failed"), the poller's wait before it, the number of listeners
\* registered when it broadcast, the listeners called in order, what they were called with, the listeners that raised, and the
\* number of cycles that have failed in a row.
NoPoll == [outcome |-> "none", before |-> 0, of |-> 0, called |-> <<>>,
           arg |-> EmptyParsed, raised |-> {}, fails |-> 0]

\* The hub as constructed (__init__), not yet started; track: whether
\* late calls of async_start are followed ("no") or not ("untracked").
HubConstructedWith(scan, cfg, track) ==
    /\ enable_devicelist_scan = scan
    /\ poll_interval = PollInterval(cfg)
    /\ session = "none"
    /\ ws = "none"
    /\ listeners = <<>>
    /\ devicelist_listeners = <<>>
    /\ task = "none"
    /\ poll_task = "none"
    /\ stopped = FALSE
    /\ connected = FALSE
    /\ hooks = 0
    /\ r_pc = "none"
    /\ backoff = 0
    /\ cancel_req = FALSE
    /\ unwinding = FALSE
    /\ sample = NoSample
    /\ cb_i = 0
    /\ timeout_duration = 0
    /\ p_pc = "none"
    /\ p_backoff = 0
    /\ p_cancel_req = FALSE
    /\ s_pc = "idle"
    /\ fails = 0
    /\ prev_backoff = 0
    /\ n_msgs = 0
    /\ calls = <<>>
    /\ last_msg = NoLast
    /\ last_poll = NoPoll
    /\ n_starts = 0
    /\ late_start = track
    /\ tasks_created = [stream |-> 0, poll |-> 0]
    /\ stops_returned = 0
    /\ early_stop = 0
    /\ stop_from_start = FALSE
    /\ stop_raised = FALSE

\* The hub with the DeviceList scan disabled and the default poll interval.
HubConstructed(scan, cfg) == HubConstructedWith(scan, cfg, "untracked")

HubInit == HubConstructed(FALSE, 0)

\* add_listener(cb): the listeners are named by their position.
AddListener ==
    /\ ~RunnerBusy
    /\ Len(listeners) < MaxListeners
    /\ listeners' = Append(listeners, Len(listeners) + 1)
    /\ UNCHANGED <<enable_devicelist_scan, session, ws, task, poll_task, stopped,
                   connected, hooks, runVars, s_pc, histVars>>
    /\ UNCHANGED <<normVars, dlVars, intVars, sensVars, cfgVars, pollVars, lifeVars>>

\* `if self._task: return`: the hub counts as started once a stream task
\* was created.
\* A plausible slip: only a task that is still running counts.
StartedWhileRunning(t) == t = "running"

Started(t) == t # "none"

\* A plausible slip: a stopped hub starts again
\* (`if self._task and not self._stopped.is_set(): return`).
AsyncStartAgain ==
    /\ ~RunnerBusy
    /\ n_starts' = Min(n_starts + 1, StartLimit)
    /\ late_start' = IF late_start = "no" /\ stops_returned > 0 THEN "yes"
                      ELSE late_start
    /\ IF Started(task) /\ ~stopped
       THEN UNCHANGED <<stopped, session, task, poll_task, hooks, r_pc, p_pc,
                        tasks_created>>
       ELSE /\ stopped' = FALSE
            /\ session' = IF session = "none" THEN "open" ELSE session
            /\ task' = "running"
            /\ r_pc' = "start"
            /\ poll_task' = IF enable_devicelist_scan THEN "running" ELSE poll_task
            /\ p_pc' = IF enable_devicelist_scan THEN "start" ELSE p_pc
            /\ hooks' = hooks + 1
            /\ tasks_created' =
                 [stream |-> tasks_created.stream + 1,
                  poll   |-> tasks_created.poll
                             + (IF enable_devicelist_scan THEN 1 ELSE 0)]
    /\ UNCHANGED <<enable_devicelist_scan, ws, listeners, connected, backoff,
                   cancel_req, unwinding, sample, cb_i, timeout_duration, s_pc,
                   histVars>>
    /\ UNCHANGED <<poll_interval, devicelist_listeners, p_backoff, p_cancel_req,
                   last_poll>>
    /\ UNCHANGED <<stops_returned, early_stop, stop_from_start, stop_raised>>
    /\ UNCHANGED <<normVars, dlVars, intVars, sensVars, cfgVars>>

\* async_start (it awaits nothing: one step).
AsyncStart ==
    /\ ~RunnerBusy
    /\ n_starts' = Min(n_starts + 1, StartLimit)
    /\ late_start' = IF late_start = "no" /\ stops_returned > 0 THEN "yes"
                      ELSE late_start
    /\ IF Started(task)
       THEN UNCHANGED <<stopped, session, task, poll_task, hooks, r_pc, p_pc,
                        tasks_created>>
       ELSE /\ stopped' = FALSE
            /\ session' = IF session = "none" THEN "open" ELSE session
            /\ task' = "running"
            /\ r_pc' = "start"
            /\ poll_task' = IF enable_devicelist_scan THEN "running" ELSE poll_task
            /\ p_pc' = IF enable_devicelist_scan THEN "start" ELSE p_pc
            /\ hooks' = hooks + 1
            /\ tasks_created' =
                 [stream |-> tasks_created.stream + 1,
                  poll   |-> tasks_created.poll
                             + (IF enable_devicelist_scan THEN 1 ELSE 0)]
    /\ UNCHANGED <<enable_devicelist_scan, ws, listeners, connected, backoff,
                   cancel_req, unwinding, sample, cb_i, timeout_duration, s_pc,
                   histVars>>
    /\ UNCHANGED <<poll_interval, devicelist_listeners, p_backoff, p_cancel_req,
                   last_poll>>
    /\ UNCHANGED <<stops_returned, early_stop, stop_from_start, stop_raised>>
    /\ UNCHANGED <<normVars, dlVars, intVars, sensVars, cfgVars>>

\* A plausible slip: a lost connection ends the loop (a `break` where the
\* handlers only log).
LeaveFinallyEndsLoop(cancelled) ==
    /\ ws' = "none"
    /\ connected' = FALSE
    /\ unwinding' = FALSE
    /\ r_pc' = "exited" /\ task' = "done"

\* The end of one pass through the outer loop body: the inner `finally`
\* has run (self._ws = None, self._connected = False); a pending
\* CancelledError reaches `except asyncio.CancelledError: break`.
LeaveFinally(cancelled) ==
    /\ ws' = "none"
    /\ connected' = FALSE
    /\ unwinding' = FALSE
    /\ IF cancelled
       THEN r_pc' = "exited" /\ task' = "done"
       ELSE r_pc' = "sleeping" /\ task' = task

\* The inner `finally`: close the socket if it is still open (an await),
\* else clear it at once.
EnterFinally(cancelled) ==
    IF ws = "open"
    THEN /\ r_pc' = "closing"
         /\ unwinding' = cancelled
         /\ UNCHANGED <<ws, connected, task>>
    ELSE LeaveFinally(cancelled)

\* The task's first step, `backoff = 1`, and the top of the loop.
RunnerStart ==
    /\ r_pc = "start"
    /\ ~cancel_req
    /\ LoopTop(stopped, session) = "sleeping" => fails < FailLimit
    /\ backoff' = 1
    /\ r_pc' = LoopTop(stopped, session)
    /\ task' = IF r_pc' = "exited" THEN "done" ELSE task
    /\ fails' = IF r_pc' = "sleeping" THEN fails + 1 ELSE fails
    /\ UNCHANGED <<enable_devicelist_scan, session, ws, listeners, poll_task,
                   stopped, connected, hooks, s_pc>>
    /\ timeout_duration' = IF r_pc' = "connecting" THEN ConnectTimeout(connected)
                         ELSE timeout_duration
    /\ UNCHANGED <<cancel_req, unwinding, sample, cb_i>>
    /\ UNCHANGED <<prev_backoff, n_msgs, calls, last_msg>>
    /\ UNCHANGED <<normVars, dlVars, intVars, sensVars, cfgVars, pollVars, lifeVars>>

\* ws_connect returned: the connection is up.
RunnerConnectOK ==
    /\ r_pc = "connecting"
    /\ ~cancel_req
    /\ ws' = "open"
    /\ connected' = TRUE
    /\ prev_backoff' = backoff
    /\ backoff' = BackoffOnConnect(backoff)
    /\ fails' = 0
    /\ last_msg' = [last_msg EXCEPT !.fresh = TRUE]
    /\ r_pc' = "reading"
    /\ UNCHANGED <<enable_devicelist_scan, session, listeners, task, poll_task,
                   stopped, hooks, s_pc>>
    /\ UNCHANGED <<cancel_req, unwinding, sample, cb_i, timeout_duration>>
    /\ UNCHANGED <<n_msgs, calls>>
    /\ UNCHANGED <<normVars, dlVars, intVars, sensVars, cfgVars, pollVars, lifeVars>>

\* ws_connect raised TimeoutError, a ClientError or another Exception, or
\* the asyncio.timeout around it expired: the outer handlers only log.
RunnerConnectFail ==
    /\ r_pc = "connecting"
    /\ ~cancel_req
    /\ fails < FailLimit
    /\ r_pc' = "sleeping"
    /\ fails' = fails + 1
    /\ UNCHANGED <<hubVars, backoff, cancel_req, unwinding, sample, cb_i, timeout_duration>>
    /\ UNCHANGED <<prev_backoff, n_msgs, calls, last_msg>>
    /\ UNCHANGED <<normVars, dlVars, intVars, sensVars, cfgVars, pollVars, lifeVars>>

\* `async for msg in self._ws` yields a frame; the loop body runs up to the
\* listeners.
RunnerReceive ==
    /\ MayReceive(r_pc)
    /\ ws = "open"
    /\ ~cancel_req
    /\ n_msgs < MaxMsgs
    /\ \E frame \in Frames :
         LET act == FrameAction(frame, stopped, consumption_measure)
             normalized_ == IF act = "broadcast"
                            THEN NormalizePayload(frame.data.value, consumption_measure)
                            ELSE NoSample
             calling == act = "broadcast" /\ listeners # <<>>
         IN  /\ n_msgs' = n_msgs + 1
             /\ sample' = normalized_
             /\ last_msg' = [no |-> n_msgs + 1, frame |-> frame,
                             prev |-> IF last_msg.fresh THEN "none"
                                      ELSE IF DroppedText(last_msg.frame,
                                                          consumption_measure)
                                           THEN "dropped" ELSE "other",
                             fresh |-> FALSE,
                             stopping |-> stopped,
                             sample |-> normalized_,
                             n |-> IF act = "broadcast" THEN Len(listeners) ELSE 0,
                             raised |-> {},
                             resumed |-> act # "break" /\ ~calling /\ connected]
             /\ IF act = "break"
                THEN EnterFinally(FALSE) /\ cb_i' = cb_i
                ELSE /\ r_pc' = IF calling THEN "deliver" ELSE "reading"
                     /\ cb_i' = IF calling THEN 1 ELSE cb_i
                     /\ UNCHANGED <<ws, connected, task, unwinding>>
    /\ UNCHANGED <<enable_devicelist_scan, session, listeners, poll_task,
                   stopped, hooks, s_pc>>
    /\ UNCHANGED <<backoff, cancel_req, timeout_duration>>
    /\ UNCHANGED <<fails, prev_backoff, calls>>
    /\ UNCHANGED <<normVars, dlVars, intVars, sensVars, cfgVars, pollVars, lifeVars>>

\* cb(normalized) for the next listener; the Exception it may raise is logged.
RunnerDeliver ==
    /\ r_pc = "deliver"
    /\ \E raised \in BOOLEAN :
         LET next == AfterCallback(cb_i, Len(listeners), raised)
         IN  /\ calls' = Append(calls, [msg |-> last_msg.no, cb |-> listeners[cb_i],
                                        of |-> Len(listeners), arg |-> sample])
             /\ r_pc' = next
             /\ cb_i' = cb_i + 1
             /\ last_msg' = [last_msg EXCEPT
                           !.raised = IF raised THEN @ \cup {listeners[cb_i]} ELSE @,
                           !.resumed = next = "reading" /\ ws = "open" /\ connected]
    /\ UNCHANGED <<hubVars, backoff, cancel_req, unwinding, sample, timeout_duration>>
    /\ UNCHANGED <<fails, prev_backoff, n_msgs>>
    /\ UNCHANGED <<normVars, dlVars, intVars, sensVars, cfgVars, pollVars, lifeVars>>

\* The iteration over the socket ends: the peer or async_stop closed the
\* socket, or reading raised with the socket still open (`except Exception`
\* logs); then the inner `finally`.
RunnerStreamEnd ==
    /\ r_pc = "reading"
    /\ ~cancel_req
    /\ \E still_open \in BOOLEAN :
         /\ still_open => ws = "open"
         /\ IF still_open
            THEN /\ r_pc' = "closing"
                 /\ UNCHANGED <<ws, connected, task, unwinding>>
            ELSE LeaveFinally(FALSE)
    /\ UNCHANGED <<enable_devicelist_scan, session, listeners, poll_task,
                   stopped, hooks, s_pc>>
    /\ UNCHANGED <<backoff, cancel_req, sample, cb_i, timeout_duration>>
    /\ UNCHANGED histVars
    /\ UNCHANGED <<normVars, dlVars, intVars, sensVars, cfgVars, pollVars, lifeVars>>

\* `await self._ws.close()` in the inner `finally` returned or raised an
\* Exception (swallowed).
RunnerCloseDone ==
    /\ r_pc = "closing"
    /\ ~cancel_req
    /\ LeaveFinally(unwinding)
    /\ UNCHANGED <<enable_devicelist_scan, session, listeners, poll_task,
                   stopped, hooks, s_pc>>
    /\ UNCHANGED <<backoff, cancel_req, sample, cb_i, timeout_duration>>
    /\ UNCHANGED histVars
    /\ UNCHANGED <<normVars, dlVars, intVars, sensVars, cfgVars, pollVars, lifeVars>>

\* `await asyncio.sleep(backoff)` returned: double the backoff and go to the
\* top of the loop.
RunnerWake ==
    /\ r_pc = "sleeping"
    /\ ~cancel_req
    /\ LoopTop(stopped, session) = "sleeping" => fails < FailLimit
    /\ backoff' = NextBackoff(backoff)
    /\ r_pc' = LoopTop(stopped, session)
    /\ task' = IF r_pc' = "exited" THEN "done" ELSE task
    /\ fails' = IF r_pc' = "sleeping" THEN fails + 1 ELSE fails
    /\ UNCHANGED <<enable_devicelist_scan, session, ws, listeners, poll_task,
                   stopped, connected, hooks, s_pc>>
    /\ timeout_duration' = IF r_pc' = "connecting" THEN ConnectTimeout(connected)
                         ELSE timeout_duration
    /\ UNCHANGED <<cancel_req, unwinding, sample, cb_i>>
    /\ UNCHANGED <<prev_backoff, n_msgs, calls, last_msg>>
    /\ UNCHANGED <<normVars, dlVars, intVars, sensVars, cfgVars, pollVars, lifeVars>>

\* task.cancel() takes effect: CancelledError is raised at the runner's
\* await.  In ws_connect and in the message loop it reaches
\* `except asyncio.CancelledError: break` (through the inner `finally` from
\* the message loop); raised inside the `finally`'s close it skips the rest of
\* the `finally`; in asyncio.sleep, or before the task ever ran, it ends the task.
RunnerCancelled ==
    /\ cancel_req
    /\ r_pc \in {"start", "connecting", "reading", "closing", "sleeping"}
    /\ cancel_req' = FALSE
    /\ IF r_pc = "reading"
       THEN EnterFinally(TRUE)
       ELSE /\ r_pc' = "exited"
            /\ task' = "done"
            /\ UNCHANGED <<ws, connected, unwinding>>
    /\ UNCHANGED <<enable_devicelist_scan, session, listeners, poll_task,
                   stopped, hooks, s_pc>>
    /\ UNCHANGED <<backoff, sample, cb_i, timeout_duration>>
    /\ UNCHANGED histVars
    /\ UNCHANGED <<normVars, dlVars, intVars, sensVars, cfgVars, pollVars, lifeVars>>

\* What async_stop leaves alone.
stopFrame == <<enable_devicelist_scan, listeners, task, poll_task, hooks,
               r_pc, backoff, unwinding, sample, cb_i, timeout_duration,
               poll_interval, devicelist_listeners, p_pc, p_backoff, last_poll,
               n_starts, late_start, tasks_created, histVars, normVars, dlVars,
               intVars, sensVars, cfgVars>>

\* Whether async_stop's handlers catch what an await in it raises ("none":
\* the await returned).  `except Exception` catches Exception and
\* TimeoutError at every await; CancelledError is caught around wait_for only.
\* A plausible slip: `except asyncio.CancelledError: pass` is missing.
StopCatchesOnlyException(at, exc) == exc \in {"none", "Exception", "TimeoutError"}

StopCatches(at, exc) ==
    \/ exc \in {"none", "Exception", "TimeoutError"}
    \/ exc = "CancelledError" /\ at = "wait_for"

\* An exception leaves async_stop.
StopEscapes ==
    /\ s_pc' = "idle"
    /\ stop_raised' = TRUE
    /\ stop_from_start' = FALSE
    /\ UNCHANGED <<connected, cancel_req, p_cancel_req, stops_returned, early_stop>>

\* async_stop is at its next await.
StopAwaits(pc, from_start) ==
    /\ s_pc' = pc
    /\ stop_from_start' = from_start
    /\ UNCHANGED <<connected, stops_returned, early_stop, stop_raised>>

\* self._connected = False, and async_stop returns.
StopReturn(from_start) ==
    /\ s_pc' = "idle"
    /\ connected' = FALSE
    /\ stop_from_start' = FALSE
    /\ stop_raised' = stop_raised
    /\ stops_returned' = IF from_start THEN Min(stops_returned + 1, StopLimit)
                         ELSE stops_returned
    /\ early_stop' = IF from_start THEN early_stop
                     ELSE Min(early_stop + 1, EarlyLimit)

\* `if self._session:` close it (an await), else return.
StopSession(from_start) ==
    IF session # "none" THEN StopAwaits("close_session", from_start)
    ELSE StopReturn(from_start)

\* The second pass of `for task in [self._task, self._poll_task]`: cancel
\* the poller and wait for it, or go on to the session.
StopPollTask(from_start) ==
    IF poll_task = "running"
    THEN p_cancel_req' = TRUE /\ StopAwaits("wait_poll", from_start)
    ELSE p_cancel_req' = p_cancel_req /\ StopSession(from_start)

\* async_stop from `for task in [self._task, self._poll_task]` on, up to its
\* next await: cancel the runner and wait for it, or go on to the poller.
StopTasks(from_start) ==
    IF task = "running"
    THEN /\ cancel_req' = TRUE
         /\ p_cancel_req' = p_cancel_req
         /\ StopAwaits("wait_task", from_start)
    ELSE /\ cancel_req' = cancel_req
         /\ StopPollTask(from_start)

\* async_stop is called (by the stop hook or by async_unload_entry): set the
\* stop flag and begin closing the socket.  Calls are taken one at a time.
StopBegin ==
    /\ ~RunnerBusy
    /\ s_pc = "idle"
    /\ stopped' = TRUE
    /\ IF ws = "open"
       THEN /\ StopAwaits("close_ws", Started(task))
            /\ UNCHANGED <<cancel_req, p_cancel_req>>
       ELSE StopTasks(Started(task))
    /\ UNCHANGED <<ws, session>>
    /\ UNCHANGED stopFrame

\* `await self._ws.close()` in async_stop returned (the socket is closed,
\* self._ws = None) or raised (logged; self._ws is left as it is).
StopWsClosed ==
    /\ ~RunnerBusy
    /\ s_pc = "close_ws"
    /\ \E exc \in {"none", "Exception"} :
         /\ ws' = IF exc = "none" THEN "none" ELSE ws
         /\ IF StopCatches("ws_close", exc)
            THEN StopTasks(stop_from_start)
            ELSE StopEscapes
    /\ UNCHANGED <<stopped, session>>
    /\ UNCHANGED stopFrame

\* asyncio.wait_for(task, timeout=5) expires while the runner is still
\* running: wait_for cancels the task again and keeps waiting for it.
StopTaskTimeout ==
    /\ ~RunnerBusy
    /\ s_pc = "wait_task"
    /\ task = "running"
    /\ ~cancel_req
    /\ cancel_req' = TRUE
    /\ UNCHANGED <<hubVars, r_pc, backoff, unwinding, sample, cb_i, timeout_duration>>
    /\ UNCHANGED histVars
    /\ UNCHANGED <<normVars, dlVars, intVars, sensVars, cfgVars, pollVars, lifeVars>>

\* The runner has ended: wait_for returns, or raises TimeoutError (it had
\* expired) or the task's CancelledError; go on to the poller.
StopTaskWaited ==
    /\ s_pc = "wait_task"
    /\ task = "done"
    /\ \E exc \in {"none", "TimeoutError", "CancelledError"} :
         IF StopCatches("wait_for", exc)
         THEN cancel_req' = cancel_req /\ StopPollTask(stop_from_start)
         ELSE StopEscapes
    /\ UNCHANGED <<stopped, ws, session>>
    /\ UNCHANGED stopFrame

\* asyncio.wait_for(poll_task, timeout=5) expires while the poller is still
\* running: wait_for cancels the task again and keeps waiting for it.
StopPollTimeout ==
    /\ ~RunnerBusy
    /\ s_pc = "wait_poll"
    /\ poll_task = "running"
    /\ p_cancel_req' = TRUE
    /\ UNCHANGED <<hubVars, runVars, histVars, lifeVars>>
    /\ UNCHANGED <<poll_interval, devicelist_listeners, p_pc, p_backoff, last_poll>>
    /\ UNCHANGED <<normVars, dlVars, intVars, sensVars, cfgVars>>

\* The poller has ended: wait_for returns or raises; go on to the session.
StopPollWaited ==
    /\ s_pc = "wait_poll"
    /\ poll_task = "done"
    /\ \E exc \in {"none", "TimeoutError", "CancelledError"} :
         IF StopCatches("wait_for", exc)
         THEN UNCHANGED <<cancel_req, p_cancel_req>> /\ StopSession(stop_from_start)
         ELSE StopEscapes
    /\ UNCHANGED <<stopped, ws, session>>
    /\ UNCHANGED stopFrame

\* `await self._session.close()` returned (self._session = None) or raised
\* (logged); then self._connected = False.
StopSessionClosed ==
    /\ ~RunnerBusy
    /\ s_pc = "close_session"
    /\ \E exc \in {"none", "Exception"} :
         /\ session' = IF exc = "none" THEN "none" ELSE session
         /\ IF StopCatches("session_close", exc)
            THEN StopReturn(stop_from_start)
            ELSE StopEscapes
    /\ UNCHANGED <<stopped, ws, cancel_req, p_cancel_req>>
    /\ UNCHANGED stopFrame

NextHub ==
    \/ AddListener
    \/ AsyncStart
    \/ RunnerStart
    \/ RunnerConnectOK
    \/ RunnerConnectFail
    \/ RunnerReceive
    \/ RunnerDeliver
    \/ RunnerStreamEnd
    \/ RunnerCloseDone
    \/ RunnerWake
    \/ RunnerCancelled
    \/ StopBegin
    \/ StopWsClosed
    \/ StopTaskTimeout
    \/ StopTaskWaited
    \/ StopSessionClosed

-----------------------------------------------------------------------------
(* SunPowerWSHub: add_devicelist_listener and _devicelist_poller *)

\* The bodies a 200 response may carry: one json() rejects, a JSON list, and
\* a DeviceList of one inverter.
PollBodies ==
    { NotJson,
      JsonText(ListV),
      JsonText(DLWrap("devices",
                      << ItemsV(<< <<"name", TextV("Inverter1")>>,
                                   <<"type", TextV("inverter")>>,
                                   <<"ac_lifetime_wh", NumV(500000)>> >>) >>)) }

\* backoff = min(max(60, backoff * 2), 3600)
\* A plausible slip: no cap.
PollFailBackoffUncapped(b) == IF b * 2 > 60 THEN b * 2 ELSE 60

PollFailBackoff(b) ==
    LET floor == IF b * 2 > 60 THEN b * 2 ELSE 60
    IN  Min(floor, 3600)

\* backoff = self.poll_interval  # Reset backoff on success
\* A plausible slip: the reset is missing.
PollSuccessBackoffKept(b, interval) == b

PollSuccessBackoff(b, interval) == interval

\* The top of `while not self._stopped.is_set()` up to the first await:
\* "exited" (the loop ended) or "get" (awaiting the response).
PollTop(is_stopped) == IF is_stopped THEN "exited" ELSE "get"

\* A plausible slip: the first listener that raises ends the broadcast.
DLBroadcastUntilRaise(ls, raising) ==
    IF \E i \in 1..Len(ls) : ls[i] \in raising
    THEN SubSeq(ls, 1, CHOOSE i \in 1..Len(ls) :
                          /\ ls[i] \in raising
                          /\ \A j \in 1..(i - 1) : ls[j] \notin raising)
    ELSE ls

\* `for cb in self._devicelist_listeners: try: cb(parsed) except Exception`:
\* the listeners called, in order, when those in `raising` raise.
DLBroadcast(ls, raising) == ls

\* A plausible slip: the poller keeps its wait in the hub's stream backoff.
PollFailedSharedBackoff ==
    /\ p_backoff' = PollFailBackoff(p_backoff)
    /\ p_pc' = "sleeping"
    /\ last_poll.fails < MaxPollFails
    /\ last_poll' = [NoPoll EXCEPT !.outcome = "failed", !.before = p_backoff,
                                   !.fails = last_poll.fails + 1]
    /\ backoff' = PollFailBackoff(p_backoff)
    /\ UNCHANGED <<r_pc, cancel_req, unwinding, sample, cb_i, timeout_duration>>

\* A cycle fails (a status other than 200, ClientError, TimeoutError or
\* another Exception): the handlers raise the wait; then asyncio.sleep.
PollFailed ==
    /\ p_backoff' = PollFailBackoff(p_backoff)
    /\ p_pc' = "sleeping"
    /\ last_poll.fails < MaxPollFails
    /\ last_poll' = [NoPoll EXCEPT !.outcome = "failed", !.before = p_backoff,
                                   !.fails = last_poll.fails + 1]
    /\ UNCHANGED runVars

\* The top of the loop: create the session if there is none, and send the
\* request; or leave the loop.
PollLoop ==
    /\ p_pc' = PollTop(stopped)
    /\ poll_task' = IF p_pc' = "exited" THEN "done" ELSE poll_task
    /\ session' = IF p_pc' = "get" /\ session = "none" THEN "open" ELSE session
    /\ UNCHANGED <<enable_devicelist_scan, ws, listeners, task, stopped, connected,
                   hooks, s_pc>>

\* add_devicelist_listener(cb): the listeners are named by their position.
AddDevicelistListener ==
    /\ ~RunnerBusy
    /\ Len(devicelist_listeners) < MaxDLListeners
    /\ devicelist_listeners' = Append(devicelist_listeners, Len(devicelist_listeners) + 1)
    /\ UNCHANGED <<poll_interval, p_pc, p_backoff, p_cancel_req, last_poll>>
    /\ UNCHANGED <<hubVars, runVars, histVars, lifeVars, normVars, dlVars, intVars, sensVars, cfgVars>>

\* The task's first step, `backoff = self.poll_interval`, and the top of the
\* loop.
PollerStart ==
    /\ ~RunnerBusy
    /\ p_pc = "start"
    /\ ~p_cancel_req
    /\ p_backoff' = poll_interval
    /\ PollLoop
    /\ UNCHANGED <<poll_interval, devicelist_listeners, p_cancel_req, last_poll>>
    /\ UNCHANGED <<runVars, histVars, lifeVars, normVars, dlVars, intVars, sensVars, cfgVars>>

\* `self._session.get(url, timeout=15)` answers or fails.
PollerResponse ==
    /\ ~RunnerBusy
    /\ p_pc = "get"
    /\ ~p_cancel_req
    /\ \E outcome \in {"200", "other status", "ClientError", "TimeoutError", "Exception"} :
         IF outcome = "200"
         THEN p_pc' = "json" /\ UNCHANGED <<p_backoff, last_poll, runVars>>
         ELSE PollFailed
    /\ UNCHANGED <<poll_interval, devicelist_listeners, p_cancel_req>>
    /\ UNCHANGED <<hubVars, histVars, lifeVars, normVars, dlVars, intVars, sensVars, cfgVars>>

\* `await resp.json(content_type=None)` returns the decoded body, which is
\* parsed and handed to the listeners (no await: one step), or it raises.
PollerBody ==
    /\ ~RunnerBusy
    /\ p_pc = "json"
    /\ ~p_cancel_req
    /\ \/ \E body \in PollBodies, raising \in SUBSET (1..Len(devicelist_listeners)) :
            IF body.json
            THEN /\ last_poll' =
                      [outcome |-> "ok", before |-> p_backoff,
                       of |-> Len(devicelist_listeners),
                       called |-> DLBroadcast(devicelist_listeners, raising),
                       arg |-> ParseDevicelist(body.value),
                       raised |-> raising, fails |-> 0]
                 /\ p_backoff' = PollSuccessBackoff(p_backoff, poll_interval)
                 /\ p_pc' = "sleeping"
                 /\ UNCHANGED runVars
            ELSE raising = {} /\ PollFailed
       \/ PollFailed
    /\ UNCHANGED <<poll_interval, devicelist_listeners, p_cancel_req>>
    /\ UNCHANGED <<hubVars, histVars, lifeVars, normVars, dlVars, intVars, sensVars, cfgVars>>

\* `await asyncio.sleep(backoff)` returned: the top of the loop.
PollerWake ==
    /\ ~RunnerBusy
    /\ p_pc = "sleeping"
    /\ ~p_cancel_req
    /\ PollLoop
    /\ UNCHANGED <<poll_interval, devicelist_listeners, p_backoff, p_cancel_req, last_poll>>
    /\ UNCHANGED <<runVars, histVars, lifeVars, normVars, dlVars, intVars, sensVars, cfgVars>>

\* The poll task's cancel() takes effect: CancelledError is raised at the
\* poller's await and reaches `except asyncio.CancelledError: break` (or
\* ends the task before it ever ran).
PollerCancelled ==
    /\ ~RunnerBusy
    /\ p_cancel_req
    /\ p_pc \in {"start", "get", "json", "sleeping"}
    /\ p_cancel_req' = FALSE
    /\ p_pc' = "exited"
    /\ poll_task' = "done"
    /\ UNCHANGED <<enable_devicelist_scan, session, ws, listeners, task, stopped,
                   connected, hooks, s_pc>>
    /\ UNCHANGED <<poll_interval, devicelist_listeners, p_backoff, last_poll>>
    /\ UNCHANGED <<runVars, histVars, lifeVars, normVars, dlVars, intVars, sensVars, cfgVars>>

NextPoll ==
    \/ AddDevicelistListener
    \/ PollerStart
    \/ PollerResponse
    \/ PollerBody
    \/ PollerWake
    \/ PollerCancelled
    \/ StopPollTimeout
    \/ StopPollWaited

-----------------------------------------------------------------------------
(* sensor.py: the device-list listeners of the sensor layer *)

\* A device-list listener is named by the inverter and the key its entity
\* shows; SiteLifetimeEnergySensor's listener and the manager's serve no
\* inverter.
SiteListener == [iid |-> "", key |-> "site_lifetime_kwh"]
ManagerListener == [iid |-> "", key |-> "manager"]

\* iid = str(inv.get("id") or inv.get("name"))
ManagerId(inv) == IF inv.id # "" THEN inv.id ELSE inv.name

\* _make_entities: the entities of one inverter, each with its listener, in
\* the order the listeners are registered.
MakeEntities(iid) ==
    << [iid |-> iid, key |-> "lifetime_kwh"], [iid |-> iid, key |-> "ac_w"],
       [iid |-> iid, key |-> "dc_v"], [iid |-> iid, key |-> "dc_a"],
       [iid |-> iid, key |-> "temp_c"] >>

\* A plausible slip: `or iid in self._seen_ids` is missing.
RECURSIVE ManagerScanAll(_, _, _)
ManagerScanAll(inverters, seen, new_entities) ==
    IF inverters = <<>> THEN <<seen, new_entities>>
    ELSE LET iid == ManagerId(Head(inverters))
         IN  IF iid = ""
             THEN ManagerScanAll(Tail(inverters), seen, new_entities)
             ELSE ManagerScanAll(Tail(inverters), seen \cup {iid},
                                 new_entities \o MakeEntities(iid))

\* The manager's _dl_listener: the loop over data["inverters"], giving
\* <<_seen_ids, new_entities>>.
RECURSIVE ManagerScan(_, _, _)
ManagerScan(inverters, seen, new_entities) ==
    IF inverters = <<>> THEN <<seen, new_entities>>
    ELSE LET iid == ManagerId(Head(inverters))
         IN  IF iid = "" \/ iid \in seen
             THEN ManagerScan(Tail(inverters), seen, new_entities)
             ELSE ManagerScan(Tail(inverters), seen \cup {iid},
                              new_entities \o MakeEntities(iid))

\* upd_life and _upd: the value the entity of listener cb has after the
\* loop over data["inverters"], old being its value before.
RECURSIVE UpdaterValue(_, _, _)
UpdaterValue(cb, inverters, old) ==
    IF inverters = <<>> THEN old
    ELSE LET inv == Head(inverters)
             val == inv[cb.key]
         IN  UpdaterValue(cb, Tail(inverters),
                          IF ManagerId(inv) = cb.iid /\ IsNumeric(val)
                          THEN Float(val) ELSE old)

\* What a call cb(parsed) leaves: <<_devicelist_listeners, _seen_ids, the
\* entities handed to async_add_entities, the entities' values>>.
CallDLListener(cb, snapshot, ls, seen, ents, values) ==
    IF cb = ManagerListener
    THEN LET scan == ManagerScan(snapshot.inverters, seen, <<>>)
             fresh == [e \in {scan[2][i] : i \in DOMAIN scan[2]} |-> NoneV]
         IN  <<ls \o scan[2], scan[1], ents \o scan[2], fresh @@ values>>
    ELSE IF cb = SiteListener
    THEN <<ls, seen, ents,
           [values EXCEPT ![cb] = IF IsNumeric(snapshot.site_lifetime_kwh)
                                  THEN Float(snapshot.site_lifetime_kwh) ELSE @]>>
    ELSE <<ls, seen, ents,
           [values EXCEPT ![cb] = UpdaterValue(cb, snapshot.inverters, @)]>>

\* The devices the gateway may list: two inverters, one of them without a
\* serial number, and a meter that reports nothing.
SnapshotDevices ==
    { ItemsV(<< <<"name", TextV("Inverter1")>>, <<"type", TextV("inverter")>>,
                <<"serial", TextV("E001")>>, <<"ac_lifetime_wh", NumV(500000)>> >>),
      ItemsV(<< <<"DeviceName", TextV("MicroA")>>, <<"ac_w", NumV(250)>> >>),
      ItemsV(<< <<"name", TextV("PVS6")>>, <<"type", TextV("meter")>> >>) }

\* The listeners and entities before sensor.py's async_setup_entry.
SensIdle ==
    /\ seen_ids = {}
    /\ added = <<>>
    /\ sens_values = <<>>
    /\ dl_i = 0
    /\ dl_len0 = 0
    /\ dl_calls = <<>>

\* async_setup_entry (sensor.py), with the scan enabled: manager.start()
\* registers the manager's listener.
ManagerStart ==
    /\ dl_i = 0
    /\ enable_devicelist_scan
    /\ devicelist_listeners = <<>>
    /\ devicelist_listeners' = <<ManagerListener>>
    /\ UNCHANGED <<poll_interval, p_pc, p_backoff, p_cancel_req, last_poll>>
    /\ UNCHANGED sensVars
    /\ UNCHANGED <<hubVars, runVars, histVars, lifeVars, normVars, dlVars, intVars,
                   cfgVars>>

\* SiteLifetimeEnergySensor.async_added_to_hass, run for the entity that
\* async_setup_entry handed to async_add_entities.
SiteAdded ==
    /\ dl_i = 0
    /\ devicelist_listeners # <<>>
    /\ SiteListener \notin DOMAIN sens_values
    /\ devicelist_listeners' = Append(devicelist_listeners, SiteListener)
    /\ sens_values' = (SiteListener :> NoneV) @@ sens_values
    /\ UNCHANGED <<poll_interval, p_pc, p_backoff, p_cancel_req, last_poll>>
    /\ UNCHANGED <<seen_ids, added, dl_i, dl_len0, dl_calls>>
    /\ UNCHANGED <<hubVars, runVars, histVars, lifeVars, normVars, dlVars, intVars,
                   cfgVars>>

\* The poller's `parsed = self._parse_devicelist(data)` on a body of devices,
\* and the start of its loop over the listeners (position 0: no listener is
\* left and the loop is over).
PollerParsed ==
    /\ dl_i = 0
    /\ \E n \in 0..MaxDevices : \E devices \in [1..n -> SnapshotDevices] :
           parsed' = ParseDevicelist(DLWrap("devices", devices))
    /\ dl_i' = IF devicelist_listeners # <<>> THEN 1 ELSE 0
    /\ dl_len0' = Len(devicelist_listeners)
    /\ dl_calls' = <<>>
    /\ UNCHANGED <<seen_ids, added, sens_values>>
    /\ UNCHANGED <<dl_data, dl_pc, pollVars>>
    /\ UNCHANGED <<hubVars, runVars, histVars, lifeVars, normVars, intVars, cfgVars>>

\* One turn of the loop: cb(parsed) for the listener at the loop's position.
\* A plausible slip: the loop runs over a copy of the list made when the
\* broadcast begins (`for cb in list(self._devicelist_listeners)`).
PollerNotifyOverCopy ==
    /\ dl_i > 0
    /\ LET cb == devicelist_listeners[dl_i]
           after == CallDLListener(cb, parsed, devicelist_listeners, seen_ids,
                                   added, sens_values)
       IN  /\ devicelist_listeners' = after[1]
           /\ seen_ids' = after[2]
           /\ added' = after[3]
           /\ sens_values' = after[4]
           /\ dl_calls' = Append(dl_calls, [cb |-> cb, arg |-> parsed])
           /\ dl_i' = IF dl_i < dl_len0 THEN dl_i + 1 ELSE 0
    /\ UNCHANGED dl_len0
    /\ UNCHANGED <<poll_interval, p_pc, p_backoff, p_cancel_req, last_poll>>
    /\ UNCHANGED <<hubVars, runVars, histVars, lifeVars, normVars, dlVars, intVars,
                   cfgVars>>

PollerNotify ==
    /\ dl_i > 0
    /\ LET cb == devicelist_listeners[dl_i]
           after == CallDLListener(cb, parsed, devicelist_listeners, seen_ids,
                                   added, sens_values)
       IN  /\ devicelist_listeners' = after[1]
           /\ seen_ids' = after[2]
           /\ added' = after[3]
           /\ sens_values' = after[4]
           /\ dl_calls' = Append(dl_calls, [cb |-> cb, arg |-> parsed])
           /\ dl_i' = IF dl_i < Len(after[1]) THEN dl_i + 1 ELSE 0
    /\ UNCHANGED dl_len0
    /\ UNCHANGED <<poll_interval, p_pc, p_backoff, p_cancel_req, last_poll>>
    /\ UNCHANGED <<hubVars, runVars, histVars, lifeVars, normVars, dlVars, intVars,
                   cfgVars>>

NextSens == ManagerStart \/ SiteAdded \/ PollerParsed \/ PollerNotify

-----------------------------------------------------------------------------
(* config_flow.py, and async_setup_entry and async_unload_entry *)

DEFAULT_HOST == "172.27.153.1"
DEFAULT_PORT == 9002

MaxEntries == 2
MaxHubs == 3

Hosts == {DEFAULT_HOST, "10.0.0.2"}
Ports == {DEFAULT_PORT, 9003}

\* What a form submits: the schema gives "host" and "port" defaults, so
\* both keys are there.
UserInputs == [host : Hosts, port : Ports]

\* The "host" and "port" of a dict without these keys, as .get(key) gives
\* them ({} is such a dict).
NoCfg == [host |-> "None", port |-> 0]

NoFlow == [step |-> "none", type |-> "none", reason |-> "", input |-> NoCfg,
           tick |-> FALSE]

\* for entry in self._async_current_entries(...): entry.data.get("host") ==
\* user_input.get("host") and entry.data.get("port") == user_input.get("port")
AlreadyConfigured(es, user_input) ==
    \E i \in DOMAIN es : /\ es[i].data.host = user_input.host
                         /\ es[i].data.port = user_input.port

\* async_update_entry(entry, data={}, options=options), where options has
\* the "host" and "port" of the form.
UpdatedEntry(entry, user_input) ==
    [entry EXCEPT !.data = NoCfg, !.options = user_input]

\* cfg = {**entry.data, **entry.options}, and cfg.get("host", DEFAULT_HOST),
\* cfg.get("port", DEFAULT_PORT): the gateway the entry's hub connects to.
HubAddress(entry) ==
    LET host == IF entry.options.host # "None" THEN entry.options.host
                ELSE entry.data.host
        port == IF entry.options.port # 0 THEN entry.options.port
                ELSE entry.data.port
    IN  [host |-> IF host = "None" THEN DEFAULT_HOST ELSE host,
         port |-> IF port = 0 THEN DEFAULT_PORT ELSE port]

\* hub = SunPowerWSHub(hass, host, port, ...) of async_setup_entry for the
\* entry at position i, its async_start scheduled.
NewHub(i, entry) ==
    [entry |-> i, host |-> HubAddress(entry).host, port |-> HubAddress(entry).port,
     stopped |-> FALSE]

\* hub = hass.data.get(DOMAIN, {}).get("hub"); if hub: await hub.async_stop()
StopSlotHub(hs, slot) ==
    IF slot = 0 THEN hs ELSE [hs EXCEPT ![slot].stopped = TRUE]

CfgIdle ==
    /\ entries = <<>>
    /\ flow_result = NoFlow
    /\ hubs = <<>>
    /\ hub_slot = 0

cfgFrame == <<normVars, dlVars, intVars, hubVars, runVars, histVars, pollVars,
              lifeVars, sensVars>>

\* async_step_user with a form submitted (async_step_import goes through it).
StepUser ==
    /\ \E user_input \in UserInputs :
         IF AlreadyConfigured(entries, user_input)
         THEN /\ flow_result' = [step |-> "user", type |-> "abort",
                                 reason |-> "already_configured",
                                 input |-> user_input, tick |-> ~flow_result.tick]
              /\ entries' = entries
         ELSE /\ Len(entries) < MaxEntries
              /\ flow_result' = [step |-> "user", type |-> "create_entry",
                                 reason |-> "", input |-> user_input,
                                 tick |-> ~flow_result.tick]
              /\ entries' = Append(entries, [data |-> user_input, options |-> NoCfg,
                                             loaded |-> FALSE])
    /\ UNCHANGED <<hubs, hub_slot>>
    /\ UNCHANGED cfgFrame

\* async_step_init of the options flow with a form submitted: the entry is
\* updated and the flow ends.
OptionsStepInit ==
    /\ \E i \in DOMAIN entries : \E user_input \in UserInputs :
         /\ entries' = [entries EXCEPT ![i] = UpdatedEntry(@, user_input)]
         /\ flow_result' = [step |-> "init", type |-> "create_entry", reason |-> "",
                            input |-> user_input, tick |-> ~flow_result.tick]
    /\ UNCHANGED <<hubs, hub_slot>>
    /\ UNCHANGED cfgFrame

\* async_step_reconfigure with a form submitted: the entry is updated and
\* reloaded (unloaded if it was loaded, then set up), whether or not the
\* reload ends within its 30 s.
StepReconfigure ==
    /\ Len(hubs) < MaxHubs
    /\ \E i \in DOMAIN entries : \E user_input \in UserInputs :
         LET updated == UpdatedEntry(entries[i], user_input)
             unloaded == IF entries[i].loaded THEN StopSlotHub(hubs, hub_slot)
                         ELSE hubs
         IN  /\ entries' = [entries EXCEPT ![i] = [updated EXCEPT !.loaded = TRUE]]
             /\ hubs' = Append(unloaded, NewHub(i, updated))
             /\ hub_slot' = Len(hubs) + 1
             /\ flow_result' = [step |-> "reconfigure", type |-> "abort",
                                reason |-> "reconfigured", input |-> user_input,
                                tick |-> ~flow_result.tick]
    /\ UNCHANGED cfgFrame

\* async_setup_entry of an entry that is not loaded: the hub is constructed
\* and stored, hass.data.setdefault(DOMAIN, {})["hub"] = hub.
SetupEntry ==
    /\ Len(hubs) < MaxHubs
    /\ \E i \in DOMAIN entries :
         /\ ~entries[i].loaded
         /\ entries' = [entries EXCEPT ![i].loaded = TRUE]
         /\ hubs' = Append(hubs, NewHub(i, entries[i]))
         /\ hub_slot' = Len(hubs) + 1
    /\ UNCHANGED flow_result
    /\ UNCHANGED cfgFrame

\* async_unload_entry of a loaded entry.
UnloadEntry ==
    /\ \E i \in DOMAIN entries :
         /\ entries[i].loaded
         /\ entries' = [entries EXCEPT ![i].loaded = FALSE]
         /\ hubs' = StopSlotHub(hubs, hub_slot)
    /\ UNCHANGED <<flow_result, hub_slot>>
    /\ UNCHANGED cfgFrame

NextCfg == StepUser \/ OptionsStepInit \/ StepReconfigure \/ SetupEntry \/ UnloadEntry

-----------------------------------------------------------------------------
(* Specifications *)

InitNorm == NormInit /\ DLIdle /\ IntIdle /\ HubInit /\ SensIdle /\ CfgIdle
SpecNorm == InitNorm /\ [][NextNorm]_vars

InitDL == DLInit /\ NormIdle /\ IntIdle /\ HubInit /\ SensIdle /\ CfgIdle
SpecDL == InitDL /\ [][NextDL]_vars

InitInt == IntInit /\ NormIdle /\ DLIdle /\ HubInit /\ SensIdle /\ CfgIdle
SpecInt == InitInt /\ [][NextInt]_vars

\* The hub and its runner; the frames it receives go through
\* _normalize_payload.
Init == HubInit /\ NormIdle /\ DLIdle /\ IntIdle /\ SensIdle /\ CfgIdle
Next == NextHub
Spec == Init /\ [][Next]_vars

\* The same under the event loop's scheduling: a sleeping runner is woken
\* when its delay has passed, and the close of a socket comes to an end.
SpecLive == Spec /\ WF_vars(RunnerWake) /\ WF_vars(RunnerCloseDone)

\* The hub with the DeviceList scan enabled, for the poll intervals
\* configured as 0 (unset), 30 and 7200: async_start and async_stop, the
\* poller, and the runner connecting and losing its connection (the frames
\* it receives are followed under Spec).
PollCfgs == {0, 30, 7200}

InitPoll ==
    /\ \E cfg \in PollCfgs : HubConstructed(TRUE, cfg)
    /\ NormIdle /\ DLIdle /\ IntIdle /\ SensIdle /\ CfgIdle
NextPollHub ==
    \/ AsyncStart
    \/ RunnerStart
    \/ RunnerConnectOK
    \/ RunnerConnectFail
    \/ RunnerStreamEnd
    \/ RunnerCloseDone
    \/ RunnerWake
    \/ RunnerCancelled
    \/ StopBegin
    \/ StopWsClosed
    \/ StopTaskTimeout
    \/ StopTaskWaited
    \/ StopSessionClosed
    \/ NextPoll
SpecPoll == InitPoll /\ [][NextPollHub]_vars

\* The same hub with the default poll interval, the calls of async_start
\* that come after a return of async_stop being followed.
InitRestart ==
    /\ HubConstructedWith(TRUE, 0, "no")
    /\ NormIdle /\ DLIdle /\ IntIdle /\ SensIdle /\ CfgIdle
SpecRestart == InitRestart /\ [][NextPollHub]_vars

\* The sensor layer set up on a hub with the DeviceList scan enabled, and
\* the snapshots the poller parses and hands to the listeners one by one.
InitSens ==
    /\ HubConstructed(TRUE, 0)
    /\ NormIdle /\ DLIdle /\ IntIdle /\ SensIdle /\ CfgIdle
SpecSens == InitSens /\ [][NextSens]_vars

\* The config entries of the integration: the flows that create and update
\* them, and their setup and unload.
InitCfg ==
    /\ CfgIdle
    /\ HubInit /\ NormIdle /\ DLIdle /\ IntIdle /\ SensIdle
SpecCfg == InitCfg /\ [][NextCfg]_vars

-----------------------------------------------------------------------------
(* Claims about _normalize_payload (checked under SpecNorm) *)

Has(result, nk) == nk \in DOMAIN result

\* C1: in house_usage mode, whenever the normalized sample has a numeric
\* pv_kw and a numeric load_kw, its net_kw is load_kw - pv_kw, whatever net
\* the message carried.
C1_HouseUsageNet ==
    ( /\ norm_pc = "done"
      /\ consumption_measure = "house_usage"
      /\ Has(normalized, "pv_kw") /\ IsNumeric(normalized["pv_kw"])
      /\ Has(normalized, "load_kw") /\ IsNumeric(normalized["load_kw"]) )
    => /\ Has(normalized, "net_kw")
       /\ normalized["net_kw"]
            = NumV(normalized["load_kw"].n - normalized["pv_kw"].n)

\* A message that carried a net different from load - pv was normalized in
\* house_usage mode.
C1_Witness ==
    /\ norm_pc = "done"
    /\ consumption_measure = "house_usage"
    /\ Has(normalized, "pv_kw") /\ IsNumeric(normalized["pv_kw"])
    /\ Has(normalized, "load_kw") /\ IsNumeric(normalized["load_kw"])
    /\ Has(Fields(data), "net_p") /\ IsNumeric(Fields(data)["net_p"])
    /\ Fields(data)["net_p"].n
         # normalized["load_kw"].n - normalized["pv_kw"].n

\* The kW key and the W key of each quantity.
Quantities == {<<"pv_kw", "solar_w">>, <<"load_kw", "load_w">>, <<"net_kw", "net_w">>}

\* C2: for each quantity, a message that carries a kW alias (with a number:
\* the product is defined for nothing else) and no W alias normalizes to a
\* W value of exactly 1000 times the normalized kW value, in both modes.
C2_WIsThousandKw ==
    norm_pc = "done" =>
        \A q \in Quantities :
            LET pulled == PullKnownKeys(Fields(data))
            IN  ( /\ Has(pulled, q[1]) /\ FloatOK(pulled[q[1]])
                  /\ ~Has(pulled, q[2]) )
                => /\ Has(normalized, q[1]) /\ IsNumeric(normalized[q[1]])
                   /\ Has(normalized, q[2]) /\ IsNumeric(normalized[q[2]])
                   /\ normalized[q[2]].n = 1000 * normalized[q[1]].n

\* C3: every value of the normalized sample is numeric (a value float()
\* cannot parse has its key removed).
C3_AllValuesNumeric ==
    norm_pc = "done" => \A nk \in DOMAIN normalized : IsNumeric(normalized[nk])

AsFloat(v) == IF FloatOK(v) THEN Float(v) ELSE v

\* The W key of each quantity and the aliases a message may carry it under.
WAliases == {<<"solar_w", {"solar_w", "pv_w"}>>, <<"load_w", {"load_w", "house_w"}>>,
             <<"net_w", {"net_w"}>>}

\* C27: when the message carries an explicit W alias of a quantity, the
\* normalized W value is that explicit value (as a float), never one derived
\* from the kW field, even when the two disagree.
C27_ExplicitWKept ==
    (norm_pc = "done" /\ IsDict(data)) =>
        \A q \in WAliases :
            LET carried == q[2] \cap DOMAIN Fields(data)
            IN  carried # {} =>
                    /\ Has(normalized, q[1])
                    /\ \E a \in carried : normalized[q[1]] = AsFloat(Fields(data)[a])
                    /\ Has(Fields(data), "solar_w") =>
                           normalized["solar_w"] = AsFloat(Fields(data)["solar_w"])

\* A message with pv_p = 3 (kW) and solar_w = 1 was normalized: solar_w is
\* 1, not 3000.
C27_Witness ==
    /\ norm_pc = "done"
    /\ Has(Fields(data), "pv_p") /\ Fields(data)["pv_p"] = NumV(3)
    /\ Has(Fields(data), "solar_w") /\ Fields(data)["solar_w"] = NumV(1)
    /\ Has(normalized, "pv_kw") /\ normalized["pv_kw"] = NumV(3)
    /\ Has(normalized, "solar_w") /\ normalized["solar_w"] = NumV(1)

\* C28: in house_usage mode, when the message yields no pv_kw or no
\* load_kw, net_kw is left untouched: it is the net the device reported (as
\* a float) if there is one, and absent otherwise.
C28_HouseUsageNetUntouched ==
    (norm_pc = "done" /\ IsDict(data) /\ consumption_measure = "house_usage") =>
        LET pulled == PullKnownKeys(Fields(data))
        IN  (~Has(pulled, "pv_kw") \/ ~Has(pulled, "load_kw")) =>
                IF Has(Fields(data), "net_p")
                THEN /\ Has(normalized, "net_kw")
                     /\ normalized["net_kw"] = AsFloat(Fields(data)["net_p"])
                ELSE ~Has(normalized, "net_kw")

\* A message with a load of 3, a net of 1 and no production was
\* normalized in house_usage mode: the net is still 1.
C28_Witness ==
    /\ norm_pc = "done"
    /\ consumption_measure = "house_usage"
    /\ ~Has(Fields(data), "pv_p")
    /\ Has(Fields(data), "load_p") /\ Fields(data)["load_p"] = NumV(3)
    /\ Has(Fields(data), "net_p") /\ Fields(data)["net_p"] = NumV(1)
    /\ Has(normalized, "net_kw") /\ normalized["net_kw"] = NumV(1)

-----------------------------------------------------------------------------
(* Claims about _parse_devicelist (checked under SpecDL) *)

\* The positions of the body's device array whose device is included and
\* has a lifetime_kwh.
Reporting(devices) ==
    {i \in 1..Len(devices) :
        /\ Included(devices[i])
        /\ ScanForLifetime(devices[i].items, NoneV) # NoneV}

RECURSIVE SumLifetime(_, _)
SumLifetime(devices, idx) ==
    IF idx = {} THEN 0
    ELSE LET i == CHOOSE j \in idx : TRUE
         IN  ScanForLifetime(devices[i].items, NoneV).n + SumLifetime(devices, idx \ {i})

\* C4: site_lifetime_kwh is None exactly when no included device has a
\* lifetime_kwh, and otherwise the sum of the lifetime_kwh of the included
\* devices that have one.
C4_SiteLifetime ==
    dl_pc = "done" =>
        LET devices == Devices(dl_data)
        IN  /\ (parsed.site_lifetime_kwh = NoneV) <=> (Reporting(devices) = {})
            /\ Reporting(devices) # {} =>
                   parsed.site_lifetime_kwh
                       = NumV(SumLifetime(devices, Reporting(devices)))

\* Two inverters were parsed, one reporting 0 and one reporting nothing:
\* the site total is 0, not None.
C4_Witness ==
    /\ dl_pc = "done"
    /\ Len(parsed.inverters) = 2
    /\ parsed.inverters[1].lifetime_kwh = NumV(0)
    /\ parsed.inverters[2].lifetime_kwh = NoneV
    /\ parsed.site_lifetime_kwh = NumV(0)

\* A lifetime_kwh was derived for the device, or its type contains "invert",
\* or its name contains "invert" or "micro" (case-insensitive).
ClaimedInverter(dev) ==
    /\ IsDict(dev)
    /\ \/ ScanForLifetime(dev.items, NoneV) # NoneV
       \/ InLower("invert", DevType(dev.items))
       \/ InLower("invert", DevName(dev.items))
       \/ InLower("micro", DevName(dev.items))

\* C19: the snapshot's inverter list holds exactly the records of the devices
\* for which a lifetime_kwh was derived or whose type contains "invert" or
\* whose name contains "invert" or "micro", in the body's order; the others
\* are discarded, and site_lifetime_kwh is made of the listed devices alone.
C19_InverterListMembership ==
    dl_pc = "done" =>
        LET kept == SelectSeq(Devices(dl_data), ClaimedInverter)
            with_kwh == {i \in 1..Len(kept) : ScanForLifetime(kept[i].items, NoneV) # NoneV}
        IN  /\ Len(parsed.inverters) = Len(kept)
            /\ \A i \in 1..Len(kept) : parsed.inverters[i] = ExtractInverterMetrics(kept[i])
            /\ parsed.site_lifetime_kwh
                 = IF with_kwh = {} THEN NoneV ELSE NumV(SumLifetime(kept, with_kwh))

\* Of two devices parsed, the first (a meter that reports only its power)
\* was discarded and the second was listed for its name alone ("MicroA").
C19_Witness ==
    /\ dl_pc = "done"
    /\ Len(Devices(dl_data)) = 2
    /\ IsDict(Devices(dl_data)[1]) /\ ~ClaimedInverter(Devices(dl_data)[1])
    /\ FirstNum(Devices(dl_data)[1].items, <<"ac_w">>) # NoneV
    /\ Len(parsed.inverters) = 1
    /\ parsed.inverters[1].name = DevName(Devices(dl_data)[2].items)
    /\ InLower("micro", parsed.inverters[1].name)
    /\ parsed.inverters[1].lifetime_kwh = NoneV
    /\ parsed.site_lifetime_kwh = NoneV

\* The positions in a device's items of the matched lifetime keys whose
\* value float() parses.
MatchedAt(items) ==
    {i \in 1..Len(items) : IsLifetimeKey(items[i][1]) /\ FloatOK(items[i][2])}

\* C29: a matched lifetime key with numeric value v gives lifetime_kwh
\* v/1000 if the key contains "wh" and v > 1000; otherwise v if the key
\* contains "kwh"; otherwise v/1000 if v > 5000 and v if not.  (Stated for
\* a body of one device with one such key, not nested; the site total is
\* then that value.)  ac_lifetime_wh = 500000 gives 500.0 for the device
\* and for the site.
C29_LifetimeUnits ==
    (/\ dl_pc = "done" /\ Len(Devices(dl_data)) = 1
     /\ IsDict(Devices(dl_data)[1])) =>
        LET items == Devices(dl_data)[1].items
        IN  (/\ \A i \in 1..Len(items) : ~IsDict(items[i][2])
             /\ Cardinality(MatchedAt(items)) = 1) =>
                LET m == CHOOSE i \in MatchedAt(items) : TRUE
                    key == items[m][1]
                    v == items[m][2].n
                    kwh == IF InLower("wh", key) /\ v > 1000 THEN v \div 1000
                           ELSE IF InLower("kwh", key) THEN v
                           ELSE IF v > 5000 THEN v \div 1000 ELSE v
                IN  /\ Len(parsed.inverters) = 1
                    /\ parsed.inverters[1].lifetime_kwh = NumV(kwh)
                    /\ parsed.site_lifetime_kwh = NumV(kwh)
                    /\ (key = "ac_lifetime_wh" /\ v = 500000) => kwh = 500

\* A body of one device that reports ac_lifetime_wh = 500000 was parsed.
C29_Witness ==
    /\ dl_pc = "done" /\ Len(Devices(dl_data)) = 1
    /\ IsDict(Devices(dl_data)[1])
    /\ Get(Devices(dl_data)[1].items, "ac_lifetime_wh") = NumV(500000)
    /\ Len(parsed.inverters) = 1
    /\ parsed.inverters[1].lifetime_kwh = NumV(500)
    /\ parsed.site_lifetime_kwh = NumV(500)

-----------------------------------------------------------------------------
(* Claims about the energy integrator (checked under SpecInt) *)

\* What the last sample added to the cumulative total, in 1/7200 kWh.
LastDelta == ValueOrZero(integrator.native_value) - ValueOrZero(int_prev.native_value)

\* C5: the first numeric sample of an accumulator adds nothing; a later
\* numeric sample at dt > 0 whose trapezoid is positive adds exactly
\* (last_power_kw + power_kw) / 2 * (dt / 3600) kWh; (t0, 2 kW) followed by
\* (t0 + 3600 s, 4 kW) adds 3.0 kWh.
C5_TrapezoidDelta ==
    (n_samples > 0 /\ IsNumeric(int_sample.p)) =>
        /\ int_prev.last_ts = NoneV => LastDelta = 0
        /\ int_prev.last_ts # NoneV =>
               LET dt == int_sample.now - int_prev.last_ts.n
                   twice == (int_prev.last_kw.n + Clamp(integrator.mode, int_sample.p.n)) * dt
                       \* twice the trapezoid, in kW s
               IN  /\ (dt > 0 /\ twice > 0) =>
                          LastDelta * 2 * 3600 = twice * UnitsPerKwh
                   /\ (int_prev.last_kw.n = 2 /\ int_sample.p = NumV(4) /\ dt = 3600
                          /\ integrator.mode # "export") =>
                          LastDelta = 3 * UnitsPerKwh

\* The accumulator has seen (t0, 2 kW) and then (t0 + 3600 s, 4 kW).
C5_Witness ==
    /\ n_samples = 2
    /\ int_prev.last_ts = NumV(3600) /\ int_prev.last_kw = NumV(2)
    /\ int_sample = [p |-> NumV(4), now |-> 7200]
    /\ LastDelta = 3 * UnitsPerKwh


\* The last sample was numeric and came dt seconds after the sample before.
LastDt == int_sample.now - int_prev.last_ts.n

\* C24: a power sample that arrives with dt <= 0 (the same or an earlier
\* timestamp than the previous sample) is skipped without updating state:
\* the total, last_sample_time and last_power_kw are unchanged.
C24_NonPositiveDtSkipped ==
    (/\ n_samples > 0 /\ IsNumeric(int_sample.p)
     /\ int_prev.last_ts # NoneV /\ LastDt <= 0) =>
        /\ integrator.native_value = int_prev.native_value
        /\ integrator.last_ts = int_prev.last_ts
        /\ integrator.last_kw = int_prev.last_kw

\* C24, as the code has it: a power sample that arrives with dt <= 0 adds
\* nothing to the total and publishes nothing, and last_sample_time and
\* last_power_kw advance to that sample.
C24_NonPositiveDtAddsNothing ==
    (/\ n_samples > 0 /\ IsNumeric(int_sample.p)
     /\ int_prev.last_ts # NoneV /\ LastDt <= 0) =>
        /\ integrator.native_value = int_prev.native_value
        /\ integrator.last_publish_ts = int_prev.last_publish_ts
        /\ integrator.last_ts = NumV(int_sample.now)
        /\ integrator.last_kw = NumV(Clamp(integrator.mode, int_sample.p.n))

\* A sample came with an earlier timestamp than the one before it, both
\* with negative power (the trapezoid over the negative dt is positive).
C24_Witness ==
    /\ n_samples > 1 /\ IsNumeric(int_sample.p)
    /\ int_prev.last_ts # NoneV /\ LastDt < 0
    /\ int_prev.last_kw.n < 0 /\ int_sample.p.n < 0
    /\ integrator.last_ts # int_prev.last_ts

\* C25: after every numeric power sample, last_sample_time and
\* last_power_kw are that sample's time and (clamped) power, whether or not
\* a delta was added.
C25_AdvancesToSample ==
    (n_samples > 0 /\ IsNumeric(int_sample.p)) =>
        /\ integrator.last_ts = NumV(int_sample.now)
        /\ integrator.last_kw = NumV(Clamp(integrator.mode, int_sample.p.n))

\* A grid-import accumulator took a negative net power at dt > 0: nothing
\* was added, and the last sample is that one, with its power clamped to 0.
C25_Witness ==
    /\ n_samples > 1 /\ integrator.mode = "import"
    /\ IsNumeric(int_sample.p) /\ int_sample.p.n < 0
    /\ int_prev.last_ts # NoneV /\ LastDt > 0
    /\ integrator.native_value = int_prev.native_value
    /\ integrator.last_ts = NumV(int_sample.now) /\ integrator.last_kw = NumV(0)

\* C26: an integrator's cumulative kWh never decreases and is never reset:
\* whatever the sample (negative power, out-of-order timestamp, missing
\* value), the total after it is a number no smaller than the total before.
C26_TotalNeverDecreases ==
    [][n_samples' # n_samples =>
           /\ IsNumeric(integrator'.native_value)
           /\ integrator'.native_value.n >= ValueOrZero(integrator.native_value)]_vars

\* An accumulator that has integrated energy took a third sample, at dt > 0,
\* whose trapezoid is negative: the total is kept.
C26_Witness ==
    /\ n_samples = 3 /\ integrator.mode = "none"
    /\ IsNumeric(int_sample.p) /\ int_prev.last_ts # NoneV /\ LastDt > 0
    /\ int_prev.last_kw.n + int_sample.p.n < 0
    /\ integrator.native_value = int_prev.native_value
    /\ integrator.native_value.n > UnitsPerKwh

-----------------------------------------------------------------------------
(* Claims about the stream loop (checked under Spec) *)

\* The k-th term of the sequence that starts at 1, doubles and is capped at 30.
RECURSIVE WaitNo(_)
WaitNo(k) == IF k <= 1 THEN 1 ELSE Min(2 * WaitNo(k - 1), 30)

ClaimedWaits == <<1, 2, 4, 8, 16, 30, 30>>

\* The runner is in the wait that follows `fails` failed attempts in a row.
WaitingAfterFailures == r_pc = "sleeping" /\ fails >= 1

\* C6 as stated: over a run of failed connection attempts with no successful
\* connection in between, the wait after the k-th failure is the k-th term of
\* 1, 2, 4, 8, 16, 30, 30, ...: the run's first wait is 1.
C6_WaitsStartAtOne ==
    WaitingAfterFailures =>
        /\ backoff = WaitNo(fails)
        /\ backoff <= 30

\* C6, amended: the waits follow 1, 2, 4, 8, 16, 30, 30, ... (each
\* min(2 * previous, 30), never above 30) counted from the start of the loop or
\* from the last successful connection, whose own end is followed by the first
\* wait (1 s): the wait after the k-th failure in a row is the k-th term when no
\* connection has succeeded yet, and the (k+1)-th term (2, 4, 8, ...) when the
\* run of failures follows a successful connection.
C6_BackoffSequence ==
    WaitingAfterFailures =>
        LET k == fails + (IF prev_backoff > 0 THEN 1 ELSE 0)
        IN  /\ backoff = WaitNo(k)
            /\ k <= Len(ClaimedWaits) => backoff = ClaimedWaits[k]
            /\ backoff <= 30

\* Six failures in a row after a connection that ended: the waits were 1
\* (after the connection), 2, 4, 8, 16, 30, and now 30 again.
C6_Witness ==
    /\ r_pc = "sleeping"
    /\ fails = 6
    /\ prev_backoff > 0
    /\ backoff = 30

\* C7: in the wait that follows the end of a successful connection, whatever
\* the backoff was when the connection came up, the runner sleeps exactly 1 s.
C7_WaitAfterConnection ==
    (r_pc = "sleeping" /\ fails = 0 /\ prev_backoff > 0) => backoff = 1

\* The connection came up when the backoff had reached 30; it has ended.
C7_Witness ==
    /\ r_pc = "sleeping"
    /\ fails = 0
    /\ prev_backoff = 30
    /\ backoff = 1

\* The listener calls made for frame number m, in order.
CallsFor(m) == SelectSeq(calls, LAMBDA e : e.msg = m)

\* C8: once the loop is done with a frame that normalized to a non-empty
\* sample, every listener registered then has been called exactly once with
\* that sample, in registration order, whichever of them raised, and the loop
\* awaits the next frame with the connection still up.
C8_EveryListenerOnce ==
    (last_msg.sample # NoSample /\ r_pc # "deliver") =>
        LET made == CallsFor(last_msg.no)
        IN  /\ Len(made) = last_msg.n
            /\ \A i \in 1..Len(made) :
                   /\ made[i].cb = i
                   /\ i <= Len(listeners) /\ listeners[i] = i
                   /\ made[i].arg = last_msg.sample
            /\ last_msg.resumed
            /\ last_msg.raised \subseteq 1..last_msg.n

\* The first of two listeners raised; the second was still called and the loop
\* reads on.
C8_Witness ==
    /\ last_msg.sample # NoSample
    /\ last_msg.n = 2
    /\ last_msg.raised = {1}
    /\ r_pc = "reading" /\ ws = "open" /\ connected
    /\ Len(CallsFor(last_msg.no)) = 2

\* What _normalize_payload makes of a text frame json.loads accepts.
SampleOf(frame) == NormalizePayload(frame.data.value, consumption_measure)

ValidText(frame) ==
    /\ frame.type = "TEXT"
    /\ frame.data.json
    /\ SampleOf(frame) # EmptyDict

\* C9: listeners are called only for a text frame that JSON-decodes and
\* normalizes to a non-empty mapping (and with that mapping); a dropped text
\* frame (arriving while no stop is requested) calls no listener and leaves the
\* loop awaiting the next frame with the connection up; and a valid frame
\* that follows a dropped one on the same connection is delivered to every
\* listener.
C9_OnlyValidFramesDelivered ==
    LET made == CallsFor(last_msg.no)
    IN  /\ made # <<>> =>
               /\ ValidText(last_msg.frame)
               /\ \A i \in 1..Len(made) : made[i].arg = SampleOf(last_msg.frame)
        /\ (last_msg.no > 0 /\ DroppedText(last_msg.frame, consumption_measure)
              /\ ~last_msg.stopping) =>
               /\ made = <<>>
               /\ last_msg.resumed
        /\ (last_msg.no > 0 /\ last_msg.prev = "dropped" /\ ValidText(last_msg.frame)
              /\ ~last_msg.stopping /\ r_pc # "deliver") =>
               /\ Len(made) = last_msg.n
               /\ last_msg.resumed

\* A dropped text frame called nobody, and the valid frame after it on the
\* same connection reached the listeners.
C9_Witness ==
    /\ last_msg.no = 2
    /\ last_msg.prev = "dropped"
    /\ ValidText(last_msg.frame)
    /\ CallsFor(1) = <<>>
    /\ last_msg.n >= 1
    /\ Len(CallsFor(2)) = last_msg.n
    /\ r_pc = "reading"

\* C10: the listener calls are made in the frames' arrival order (and in
\* registration order within a frame); every call for an earlier frame is
\* made before any call for a later one; and no frame is read while a
\* delivery is in progress: only the frame read last can have listeners still
\* to call, and only while the loop is calling them.
C10_InOrderSynchronous ==
    /\ \A i, j \in 1..Len(calls) : i < j =>
           /\ calls[i].msg <= calls[j].msg
           /\ calls[i].msg = calls[j].msg => calls[i].cb < calls[j].cb
           /\ calls[i].msg < calls[j].msg =>
                  Len(SelectSeq(SubSeq(calls, 1, j - 1),
                                LAMBDA e : e.msg = calls[i].msg)) = calls[i].of
    /\ \A m \in 1..n_msgs :
           (CallsFor(m) # <<>> /\ Len(CallsFor(m)) < CallsFor(m)[1].of) =>
               (m = n_msgs /\ r_pc = "deliver")
    /\ r_pc = "deliver" =>
           /\ last_msg.no = n_msgs
           /\ Len(CallsFor(n_msgs)) = cb_i - 1

\* Two frames of one connection, each delivered to two listeners.
C10_Witness ==
    /\ last_msg.no = 2 /\ last_msg.prev = "other"
    /\ Len(calls) = 4
    /\ calls[1].msg = 1 /\ calls[2].msg = 1
    /\ calls[3].msg = 2 /\ calls[4].msg = 2
    /\ r_pc = "reading"

\* C20: two accumulators restored from the same last state and given the
\* same (timestamp, power) samples have the same cumulative total and the
\* same last-sample state, whatever the throttle settings of the hub each
\* is attached to (which only decide when a state is published).
C20_Deterministic ==
    twin.s.mode = integrator.mode =>
        /\ twin.s.native_value = integrator.native_value
        /\ twin.s.last_ts = integrator.last_ts
        /\ twin.s.last_kw = integrator.last_kw

\* Three samples went to two accumulators whose hubs throttle differently:
\* both integrated the same energy, and they last published at different
\* times.
C20_Witness ==
    /\ n_samples = 3
    /\ twin.s.mode = integrator.mode
    /\ twin.throttle # enable_ws_throttle
    /\ twin.s.last_publish_ts # integrator.last_publish_ts
    /\ IsNumeric(integrator.native_value) /\ integrator.native_value.n > UnitsPerKwh
    /\ twin.s.native_value = integrator.native_value

\* max(x, 0).
PositivePart(x) == IF x > 0 THEN x ELSE 0

\* C37: of a grid-import and a grid-export accumulator given the same
\* net_kw samples, the first is fed max(net, 0) and the second max(-net, 0);
\* on every interval with dt > 0 the import increment minus the export
\* increment is the trapezoid (net_prev + net_now) / 2 * dt / 3600 of the
\* signed net power (net_prev being what the two were fed before:
\* max(net, 0) - max(-net, 0) = net), and neither total decreases.
C37_SplitAddsUpToNet ==
    /\ []((/\ integrator.mode = "import" /\ twin.s.mode = "export"
           /\ n_samples > 0 /\ IsNumeric(int_sample.p)) =>
              /\ integrator.last_kw = NumV(PositivePart(int_sample.p.n))
              /\ twin.s.last_kw = NumV(PositivePart(-int_sample.p.n))
              /\ integrator.last_kw.n - twin.s.last_kw.n = int_sample.p.n)
    /\ [][(/\ integrator.mode = "import" /\ twin.s.mode = "export"
           /\ n_samples' = n_samples + 1) =>
              /\ ValueOrZero(integrator'.native_value) >= ValueOrZero(integrator.native_value)
              /\ ValueOrZero(twin'.s.native_value) >= ValueOrZero(twin.s.native_value)
              /\ (/\ IsNumeric(int_sample'.p) /\ integrator.last_ts # NoneV
                  /\ int_sample'.now - integrator.last_ts.n > 0) =>
                    (ValueOrZero(integrator'.native_value)
                       - ValueOrZero(integrator.native_value))
                    - (ValueOrZero(twin'.s.native_value)
                         - ValueOrZero(twin.s.native_value))
                    = Trapezoid(integrator.last_kw.n - twin.s.last_kw.n,
                                int_sample'.p.n,
                                int_sample'.now - integrator.last_ts.n)]_vars

\* Both sensors were restored from the same state and got -2 kW and, an
\* hour later, 4 kW: the interval crosses zero, the import total rose by
\* (0 + 4) / 2 kWh and the export total by (2 + 0) / 2 kWh.
C37_Witness ==
    /\ integrator.mode = "import" /\ twin.s.mode = "export"
    /\ n_samples = 2
    /\ int_sample.p = NumV(4)
    /\ int_prev.last_ts # NoneV /\ LastDt = 3600
    /\ LastDelta = 2 * UnitsPerKwh
    /\ ValueOrZero(twin.s.native_value) - ValueOrZero(int_prev.native_value)
         = UnitsPerKwh

\* The step of a sample that the energy sensor adds to its total: numeric,
\* dt > 0 after an earlier sample, and a positive trapezoid.
IntegratedStep ==
    /\ IsNumeric(int_sample'.p)
    /\ integrator.last_ts # NoneV /\ integrator.last_kw # NoneV
    /\ int_sample'.now - integrator.last_ts.n > 0
    /\ Trapezoid(integrator.last_kw.n, Clamp(integrator.mode, int_sample'.p.n),
                 int_sample'.now - integrator.last_ts.n) > 0

\* C38: at every sample the power sensor (live or grid-split) stores the
\* value of a numeric sample and the energy sensor adds the trapezoid of a
\* sample it integrates, throttled or not; a sensor writes its state only at
\* such a sample; with throttling enabled a write comes at least
\* ws_update_interval seconds after the same sensor's write before it; with
\* throttling disabled every such sample is written.
C38_ThrottledWrites ==
    [][n_samples' = n_samples + 1 =>
         LET p   == int_sample'.p
             now == int_sample'.now
         IN  /\ IsNumeric(p) =>
                   live'.native_value = NumV(Clamp(live.mode, p.n))
             /\ IntegratedStep =>
                   integrator'.native_value =
                       NumV(ValueOrZero(integrator.native_value)
                            + Trapezoid(integrator.last_kw.n,
                                        Clamp(integrator.mode, p.n),
                                        now - integrator.last_ts.n))
             /\ wrote'.live => IsNumeric(p) /\ live'.last_publish_ts = now
             /\ wrote'.energy => IntegratedStep /\ integrator'.last_publish_ts = now
             /\ ~wrote'.live => live'.last_publish_ts = live.last_publish_ts
             /\ ~wrote'.energy =>
                   integrator'.last_publish_ts = integrator.last_publish_ts
             /\ enable_ws_throttle =>
                   /\ (wrote'.live /\ live.last_publish_ts # 0) =>
                         now - live.last_publish_ts >= ws_update_interval
                   /\ (wrote'.energy /\ integrator.last_publish_ts # 0) =>
                         now - integrator.last_publish_ts >= ws_update_interval
             /\ ~enable_ws_throttle =>
                   /\ IsNumeric(p) => wrote'.live
                   /\ IntegratedStep => wrote'.energy]_vars

\* With a throttle of 5 s: the power sensor wrote at 3600, the energy
\* sensor at 3602, and the sample at 3604 was stored by the one and added
\* to the total by the other, and written by neither.
C38_Witness ==
    /\ enable_ws_throttle /\ ws_update_interval = 5
    /\ n_samples = 3
    /\ int_sample.now = 3604 /\ IsNumeric(int_sample.p)
    /\ wrote = [live |-> FALSE, energy |-> FALSE]
    /\ live.last_publish_ts = 3600
    /\ integrator.last_publish_ts = 3602
    /\ live.native_value = NumV(Clamp(live.mode, int_sample.p.n))
    /\ LastDelta > 0

-----------------------------------------------------------------------------
(* Claims about async_start and async_stop (checked under SpecPoll) *)

\* C11: async_start is idempotent: however often it is called, at most one
\* stream-loop task and at most one poll-loop task are created and the
\* shutdown hook is registered once; a call made while the hub is already
\* started changes no state of the hub, its tasks or its listeners.
C11_StartIdempotent ==
    /\ [](tasks_created.stream <= 1 /\ tasks_created.poll <= 1 /\ hooks <= 1)
    /\ [][(n_starts' # n_starts /\ task # "none")
            => UNCHANGED <<hubVars, runVars, pollVars, histVars, tasks_created>>]_vars

\* async_start was called a second time on a started hub whose tasks run.
C11_Witness ==
    /\ n_starts = 2
    /\ tasks_created = [stream |-> 1, poll |-> 1]
    /\ hooks = 1
    /\ task = "running" /\ poll_task = "running"

\* C12: once async_start has run, every async_stop call completes without
\* raising, and from the return of the first of them on neither the
\* stream-loop task nor the poll-loop task is running.
C12_StopStopsTasks ==
    /\ ~stop_raised
    /\ stops_returned >= 1 => task # "running" /\ poll_task # "running"

\* Two async_stop calls have returned on a hub that had started both tasks.
C12_Witness ==
    /\ stops_returned = 2
    /\ tasks_created = [stream |-> 1, poll |-> 1]
    /\ task = "done" /\ poll_task = "done"
    /\ s_pc = "idle"

\* C13: async_stop is safe whenever it runs relative to the scheduled
\* async_start, before it included: it does not raise, and once both have
\* run (and no async_stop is in progress) no stream-loop or poll-loop task is
\* running and no HTTP session is open.
C13_StopSafeBeforeStart ==
    /\ ~stop_raised
    /\ (n_starts >= 1 /\ (early_stop >= 1 \/ stops_returned >= 1) /\ s_pc = "idle")
         => /\ task # "running"
            /\ poll_task # "running"
            /\ session = "none"

\* C35 (checked under SpecRestart): a hub is single-use: once async_stop has returned on a started hub
\* the task handle stays set, and no later step, an async_start call
\* included, clears the stop flag, opens a session or creates a
\* stream-loop or poll-loop task: such a call changes no state of the hub,
\* its tasks or its listeners.
C35_SingleUse ==
    /\ [](stops_returned >= 1 => Started(task) /\ task # "running"
                                               /\ poll_task # "running")
    /\ [][stops_returned >= 1 =>
            /\ stopped => stopped'
            /\ session = "none" => session' = "none"
            /\ tasks_created' = tasks_created
            /\ late_start' # late_start =>
                  UNCHANGED <<hubVars, runVars, pollVars, histVars>>]_vars

\* async_start was called after async_stop had returned on the started
\* hub, and the hub stays stopped with its single pair of finished tasks.
C35_Witness ==
    /\ late_start = "yes"
    /\ stopped /\ session = "none"
    /\ task = "done" /\ poll_task = "done"
    /\ tasks_created = [stream |-> 1, poll |-> 1]
    /\ s_pc = "idle"

\* C31: when async_stop returns on a started hub, the stop flag is set, the
\* socket's handle and the HTTP session are cleared, the connected flag is
\* false, and the stream-loop task and the poll-loop task have finished,
\* wherever each loop was when stop was called.
C31_StopLeavesNothing ==
    [][stops_returned' # stops_returned =>
           /\ stopped'
           /\ ws' = "none"
           /\ session' = "none"
           /\ ~connected'
           /\ task' = "done" /\ poll_task' = "done"]_vars

-----------------------------------------------------------------------------
(* Claims about the DeviceList poller (checked under SpecPoll) *)

\* min(max(60, 2 * wait), 3600)
ClaimedFailureWait(wait) ==
    LET doubled == 2 * wait
        raised_ == IF doubled < 60 THEN 60 ELSE doubled
    IN  IF raised_ > 3600 THEN 3600 ELSE raised_

\* C15: after a poll cycle that fails (a status other than 200, a client
\* error, a timeout or any other exception, an undecodable body included)
\* the wait before the next poll is min(max(60, 2 * previous wait), 3600),
\* no listener was called for the cycle, and the loop goes on to sleep.
C15_FailedPollBacksOff ==
    last_poll.outcome = "failed" =>
        /\ p_backoff = ClaimedFailureWait(last_poll.before)
        /\ last_poll.called = <<>>
        /\ p_pc = "sleeping" => poll_task = "running"

\* The second failure in a row of a poller whose interval is 60, with two
\* listeners registered: the wait goes from 120 to 240.
C15_Witness ==
    /\ last_poll.outcome = "failed"
    /\ last_poll.fails = 2
    /\ last_poll.before = 120
    /\ p_backoff = 240
    /\ p_pc = "sleeping"
    /\ Len(devicelist_listeners) = 2

\* What the parser makes of the bodies that json() decodes.
ParsedPollBodies == {ParseDevicelist(b.value) : b \in {x \in PollBodies : x.json}}

\* C16: after a poll cycle that gets status 200 and a decodable body, every
\* device-list listener registered was called once, in order, with the
\* parsed snapshot, whether or not some of them raised, and the wait before
\* the next poll is the configured poll interval (at least 60), whatever the
\* wait was before.
C16_GoodPollNotifiesAll ==
    last_poll.outcome = "ok" =>
        /\ last_poll.called = [i \in 1..last_poll.of |-> i]
        /\ last_poll.arg \in ParsedPollBodies
        /\ p_backoff = poll_interval
        /\ poll_interval >= 60

\* A good cycle after a failed one (the wait had been raised above the
\* interval), in which the first of two listeners raised and the snapshot
\* lists an inverter.
C16_Witness ==
    /\ last_poll.outcome = "ok"
    /\ last_poll.before > poll_interval
    /\ last_poll.raised = {1}
    /\ last_poll.called = <<1, 2>>
    /\ last_poll.arg.inverters # <<>>
    /\ p_backoff = poll_interval

\* C36: the wait before the next device-list poll is never shorter than
\* the configured base poll interval, whatever the interval and whichever
\* cycles succeeded and failed.
C36_WaitAtLeastInterval ==
    p_pc = "sleeping" => p_backoff >= poll_interval

\* A step of the poll loop: the poller leaves the await it was at.
PollStep == p_pc # "none" /\ p_pc' # p_pc

\* C17: no step of the poll loop changes the stream client's state: the
\* stream backoff, the connected flag, the socket, the stream listeners, the
\* runner's position and task, and what the runner needs to connect (the
\* session and the stop flag).
C17_PollLeavesStreamAlone ==
    [][PollStep => UNCHANGED <<backoff, connected, ws, listeners, runVars, task,
                              session, stopped, calls, last_msg>>]_vars

\* A poll cycle has failed twice while the stream is connected and reading.
C17_Witness ==
    /\ last_poll.outcome = "failed"
    /\ last_poll.fails = 2
    /\ p_pc = "sleeping"
    /\ connected /\ ws = "open" /\ r_pc = "reading"
    /\ backoff = 1

-----------------------------------------------------------------------------
(* Claims about the stream loop's connections (checked under Spec) *)

\* C21: a connection attempt made before the hub has ever connected uses the
\* 5 s timeout, and every attempt made after a successful connection uses
\* the 10 s timeout.  (prev_backoff is set by every successful connection.)
C21_ReconnectTimeout ==
    r_pc = "connecting" =>
        timeout_duration = IF prev_backoff > 0 THEN 10 ELSE 5

\* C23: while the stop flag is set the stream loop begins no connection
\* attempt and calls no listener; a frame received then is neither
\* normalized nor broadcast but ends the message loop, and the loop, once
\* its wait is over, exits.
C23_StoppedLoopIsQuiet ==
    [][stopped =>
         /\ r_pc' = "connecting" => r_pc = "connecting"
         /\ calls' = calls
         /\ n_msgs' # n_msgs =>
                /\ sample' = NoSample
                /\ last_msg'.stopping /\ last_msg'.n = 0
                /\ r_pc' \in {"closing", "sleeping"}
         /\ r_pc = "sleeping" /\ r_pc' # "sleeping" => r_pc' = "exited"]_vars

\* A frame arrived with the stop flag set, and the loop has exited by itself.
C23_Witness ==
    /\ stopped
    /\ last_msg.no > 0 /\ last_msg.stopping
    /\ last_msg.frame.type = "TEXT" /\ last_msg.frame.data.json
    /\ listeners # <<>>
    /\ r_pc = "exited"
    /\ ~cancel_req


\* C30: with the connection up (and no stop requested), a frame that is
\* neither text nor error/closed/closing changes nothing and reading
\* continues; an error, closed or closing frame, a read exception or the
\* end of the stream leaves the message loop for the inner `finally`, and
\* when the backoff wait begins the socket's handle is cleared and the
\* connected flag is false.
C30_LeavingConnected ==
    /\ [](r_pc = "sleeping" => ws = "none" /\ ~connected)
    /\ [][(/\ r_pc = "reading" /\ ~stopped /\ ~cancel_req
            /\ r_pc' \notin {"reading", "deliver"}) =>
             /\ n_msgs' # n_msgs => last_msg'.frame.type \in {"ERROR", "CLOSED", "CLOSING"}
             /\ r_pc' \in {"closing", "sleeping"}
             /\ r_pc' = "closing" => ws' = "open"
             /\ calls' = calls]_vars
    /\ [][(n_msgs' # n_msgs /\ ~stopped) =>
             /\ last_msg'.frame.type \in {"ERROR", "CLOSED", "CLOSING"} =>
                    r_pc' # "reading"
             /\ last_msg'.frame.type \notin {"TEXT", "ERROR", "CLOSED", "CLOSING"} =>
                    /\ r_pc' = "reading"
                    /\ UNCHANGED <<ws, connected, backoff, listeners, task, calls,
                                   session, stopped>>]_vars

\* On a hub with a listener, a binary frame and then an error frame
\* arrived on one connection: no listener was called, and the runner is in
\* its backoff wait with the socket cleared.
C30_Witness ==
    /\ last_msg.no = 2 /\ last_msg.frame.type = "ERROR" /\ last_msg.prev = "other"
    /\ ~last_msg.stopping
    /\ listeners # <<>> /\ calls = <<>>
    /\ r_pc = "sleeping" /\ ws = "none" /\ ~connected /\ ~stopped

-----------------------------------------------------------------------------
(* Claims about the sensor layer's device-list listeners (checked under SpecSens) *)

\* C22: a listener list is never mutated while a broadcast is iterating over
\* it: during the loop over the device-list listeners no listener is added
\* to that list.
C22_NoAddDuringBroadcast ==
    [][dl_i > 0 => devicelist_listeners' = devicelist_listeners]_vars

\* The ids of the inverters of a snapshot.
SnapshotIds(snapshot) ==
    {ManagerId(snapshot.inverters[i]) : i \in DOMAIN snapshot.inverters}

\* How many entries of a sequence are x.
CountOf(seq, x) == Cardinality({i \in DOMAIN seq : seq[i] = x})

\* C32: the set of inverter ids the manager has seen only grows, by ids of
\* the snapshot at hand; once the manager has been called with a snapshot
\* all its ids are seen; and for every id seen each of its five entities
\* and updater listeners exists exactly once, whatever snapshots follow
\* (with the id or without it).
C32_InvertersCreatedOnce ==
    /\ [][/\ seen_ids \subseteq seen_ids'
          /\ seen_ids' \ seen_ids \subseteq SnapshotIds(parsed)]_vars
    /\ [](/\ (dl_calls # <<>> /\ dl_calls[1].cb = ManagerListener) =>
                 SnapshotIds(parsed) \subseteq seen_ids
          /\ \A i \in DOMAIN added : added[i].iid \in seen_ids
          /\ \A i \in DOMAIN devicelist_listeners :
                 devicelist_listeners[i].iid \in seen_ids \cup {""}
          /\ \A iid \in seen_ids : \A j \in 1..5 :
                 /\ CountOf(added, MakeEntities(iid)[j]) = 1
                 /\ CountOf(devicelist_listeners, MakeEntities(iid)[j]) = 1)

\* C39: when a broadcast of a snapshot ends, every listener of the
\* list has been called in it once, in list order, with that snapshot: the
\* listeners that were there when it began and the updaters the manager
\* registered during it alike, and so again in every later broadcast.
C39_RegisteredDuringBroadcastInvoked ==
    [][(dl_i > 0 /\ dl_i' = 0) =>
          dl_calls' = [i \in DOMAIN devicelist_listeners' |->
                          [cb |-> devicelist_listeners'[i], arg |-> parsed]]]_vars

\* A broadcast has ended in which the manager registered the updaters of
\* an inverter it saw for the first time, after an earlier broadcast had
\* registered the other inverter's.
C39_Witness ==
    /\ dl_i = 0 /\ dl_len0 = 7
    /\ Len(devicelist_listeners) = 12
    /\ Len(dl_calls) = 12
    /\ dl_calls[12].arg = parsed /\ dl_calls[12].cb.iid \in SnapshotIds(parsed)

\* Both inverters have been seen, and a later snapshot that lists one of
\* them and not the other has been broadcast without a listener being
\* added.
C32_Witness ==
    /\ seen_ids = {"E001", "MicroA"}
    /\ SnapshotIds(parsed) = {"E001"}
    /\ dl_i = 0 /\ dl_len0 = 12 /\ Len(dl_calls) = 12
    /\ Len(devicelist_listeners) = 12 /\ Len(added) = 10

-----------------------------------------------------------------------------
(* Claims about the config entries (checked under SpecCfg) *)

\* C33: the user step prevents duplicates on the same host:port: when an
\* existing entry is configured for the host and port submitted, whatever
\* options and reconfigure updates it has gone through, the step aborts
\* with already_configured and creates no entry.
C33_NoDuplicateGateway ==
    [][(/\ flow_result'.tick # flow_result.tick
        /\ flow_result'.step = "user"
        /\ \E i \in DOMAIN entries : HubAddress(entries[i]) = flow_result'.input) =>
             /\ flow_result'.type = "abort"
             /\ flow_result'.reason = "already_configured"
             /\ entries' = entries]_vars

\* The hub that async_setup_entry constructed last for the entry at i.
HubOf(i) ==
    CHOOSE h \in DOMAIN hubs :
        /\ hubs[h].entry = i
        /\ \A k \in DOMAIN hubs : hubs[k].entry = i => k <= h

\* C34: async_unload_entry stops the hub that async_setup_entry created
\* for that same entry, and stops no other entry's hub.
C34_UnloadStopsOwnHub ==
    [][\A i \in DOMAIN entries :
          (entries[i].loaded /\ ~entries'[i].loaded) =>
              /\ hubs'[HubOf(i)].stopped
              /\ \A k \in DOMAIN hubs :
                    hubs[k].entry # i => hubs'[k].stopped = hubs[k].stopped]_vars

-----------------------------------------------------------------------------
(* Claims about the stream loop's progress (checked under SpecLive) *)

\* C14: while the stop flag is not set (and so the task not cancelled) the
\* stream loop does not end, and after a failed attempt or a lost connection
\* another connection attempt eventually follows; an attempt other than the
\* task's first is only ever entered from the backoff sleep.
C14_LoopGoesOn ==
    /\ [](task = "done" => stopped)
    /\ (r_pc \in {"sleeping", "closing"} /\ ~stopped) ~> (r_pc = "connecting" \/ stopped)
    /\ [][(r_pc' = "connecting" /\ r_pc # "connecting")
            => r_pc \in {"start", "sleeping"}]_vars

\* A connection attempt that follows a lost connection and two failed
\* attempts, with the stop flag not set.
C14_Witness ==
    /\ r_pc = "connecting"
    /\ fails = 2
    /\ prev_backoff > 0
    /\ ~stopped

=============================================================================
